---- MODULE Spec2Model ----
(***************************************************************************)
(* A model of the nVotes ElectionGuard verifier (juvenal-lib): the         *)
(* recorder, the command-line entry point, the verification tree rooted at *)
(* VElectionRecord, and the parts of the vendored VJSC library the         *)
(* verifier relies on (byte trees, group elements, Sigma proofs).          *)
(*                                                                         *)
(* Handlers are modelled as operators over a recorder value, computed as   *)
(* the code computes them; the specifications below drive them from        *)
(* bounded sets of inputs.                                                 *)
(***************************************************************************)
EXTENDS Integers, Sequences, FiniteSets, TLC

VARIABLES
    pc,        \* position of the command-line run
    election,  \* the parsed input handed to VElectionRecord
    recorder,  \* the CLIRecorder: hasFailures and the lines printed so far
    exitCode,  \* exit status of the process, -1 while it runs
    bts,       \* byte-tree codec run: input tree, byte array, decode result
    sgs,       \* Sigma-proof run: proof bytes and verdict
    dcs        \* a single VDecryptionRecord run

vars == <<pc, election, recorder, exitCode, bts, sgs, dcs>>

(***************************************************************************)
(* Bounds of the model.                                                    *)
(***************************************************************************)
MaxLeaf == 1        \* bytes in a leaf of an input byte tree
MaxKids == 2        \* children of a node of an input byte tree
MaxCalls == 4       \* record() calls in a run of the recorder alone
MaxShares == 2      \* shares of a selection in a run of one decryption alone
MaxDefects == 2     \* parts of the intact election record an input changes

\* Sequences over S of length 0..n.
BoundedSeq(S, n) == UNION {[1..k -> S] : k \in 0..n}

RECURSIVE Pow(_, _)
Pow(b, e) == IF e = 0 THEN 1 ELSE b * Pow(b, e - 1)

RECURSIVE Flatten(_)
Flatten(ss) == IF ss = <<>> THEN <<>> ELSE Head(ss) \o Flatten(Tail(ss))

(***************************************************************************)
(* eio.ByteTree                                                            *)
(***************************************************************************)
LEAF == 1
NODE == 0
ByteBase == 256
Undefined == -1     \* what a JavaScript array yields beyond its end

\* Bytes that input leaves hold, and bytes a damaged array may hold.
DataBytes == {0, 1}
TamperBytes == {0, 1, 2}

MkLeaf(bytes) == [type |-> LEAF, data |-> bytes, kids |-> <<>>]
MkNode(children) == [type |-> NODE, data |-> <<>>, kids |-> children]
NoTree == [type |-> Undefined, data |-> <<>>, kids |-> <<>>]

\* new ByteTree(value) for an array of bytes: a leaf iff value[0] is a number.
ByteTreeOfBytes(bytes) == IF Len(bytes) > 0 THEN MkLeaf(bytes) ELSE MkNode(<<>>)
\* new ByteTree(value) for an array of byte trees.
ByteTreeOfTrees(children) == MkNode(children)

isLeaf(t) == t.type = LEAF

\* source[index] with JavaScript's 0-based index.
At(source, index) ==
    IF index >= 0 /\ index < Len(source) THEN source[index + 1] ELSE Undefined

\* value |= bytes[i]: undefined contributes no bits.
OrByte(b) == IF b = Undefined THEN 0 ELSE b

\* Four bytes, most significant first; ">>> 0" keeps the result unsigned, which
\* the weighted sum of four bytes already is.
readUint32FromByteArray(bytes, index) ==
      OrByte(At(bytes, index)) * Pow(ByteBase, 3)
    + OrByte(At(bytes, index + 1)) * Pow(ByteBase, 2)
    + OrByte(At(bytes, index + 2)) * ByteBase
    + OrByte(At(bytes, index + 3))

setUint32ToByteArray(value) ==
    << (value \div Pow(ByteBase, 3)) % ByteBase,
       (value \div Pow(ByteBase, 2)) % ByteBase,
       (value \div ByteBase) % ByteBase,
       value % ByteBase >>

\* source.slice(from, to)
Slice(source, from, to) ==
    LET hi == IF to < Len(source) THEN to ELSE Len(source)
    IN  IF from >= hi THEN <<>> ELSE [i \in 1..(hi - from) |-> source[from + i]]

RECURSIVE setToByteArray(_)
setToByteArray(t) ==
    IF t.type = LEAF
    THEN <<LEAF>> \o setUint32ToByteArray(Len(t.data)) \o t.data
    ELSE <<NODE>> \o setUint32ToByteArray(Len(t.kids))
         \o Flatten([k \in 1..Len(t.kids) |-> setToByteArray(t.kids[k])])

toByteArray(t) == setToByteArray(t)

RECURSIVE toByteArrayRaw(_)
toByteArrayRaw(t) ==
    IF t.type = LEAF THEN t.data
    ELSE Flatten([k \in 1..Len(t.kids) |-> toByteArrayRaw(t.kids[k])])

Thrown == [ok |-> FALSE, tree |-> NoTree, used |-> 0]

\* A reader that trusts the declared length of a leaf.
LeafFitsUnchecked(source, index, length) == TRUE

\* A reader that refuses a leaf ending exactly at the end of the buffer.
LeafFitsStrict(source, index, length) == index + length < Len(source)

\* The bounds check on a leaf's declared length.
LeafFits(source, index, length) == index + length <= Len(source)

RECURSIVE readByteTreeFromByteArrayInner(_, _)
RECURSIVE ReadChildren(_, _, _, _, _)

\* The loop over the declared number of children; acc holds those read so far.
ReadChildren(source, index, length, i, acc) ==
    IF i >= length THEN [ok |-> TRUE, kids |-> acc, index |-> index]
    ELSE LET pair == readByteTreeFromByteArrayInner(source, index)
         IN  IF ~pair.ok THEN [ok |-> FALSE, kids |-> <<>>, index |-> index]
             ELSE ReadChildren(source, index + pair.used, length, i + 1,
                               Append(acc, pair.tree))

readByteTreeFromByteArrayInner(source, index) ==
    LET type == At(source, index)
        length == readUint32FromByteArray(source, index + 1)
        start == index + 5
    IN  IF type # LEAF /\ type # NODE THEN Thrown
        ELSE IF length <= 0 THEN Thrown
        ELSE IF type = LEAF
        THEN IF LeafFits(source, start, length)
             THEN [ok |-> TRUE,
                   tree |-> ByteTreeOfBytes(Slice(source, start, start + length)),
                   used |-> 5 + length]
             ELSE Thrown
        ELSE LET r == ReadChildren(source, start, length, 0, <<>>)
             IN  IF ~r.ok THEN Thrown
                 ELSE [ok |-> TRUE, tree |-> ByteTreeOfTrees(r.kids),
                       used |-> r.index - index]

readByteTreeFromByteArray(source) == readByteTreeFromByteArrayInner(source, 0)

\* ByteTree.asByteTree applied to a byte array.
asByteTree(bytes) == ByteTreeOfBytes(bytes)

(***************************************************************************)
(* Input byte trees: every tree the constructor builds from leaves of at   *)
(* most MaxLeaf bytes and nodes of at most MaxKids children, nested twice. *)
(***************************************************************************)
LeafTrees == {ByteTreeOfBytes(b) : b \in BoundedSeq(DataBytes, MaxLeaf)}
\* The children of input nodes hold the byte 1 only.
ChildLeaves == {ByteTreeOfBytes(b) : b \in BoundedSeq({1}, MaxLeaf)}
NodeTrees1 == {ByteTreeOfTrees(k) : k \in BoundedSeq(ChildLeaves, MaxKids)}
Trees1 == LeafTrees \cup NodeTrees1
Trees2 == Trees1 \cup
          {ByteTreeOfTrees(pre \o <<t>>) :
              pre \in BoundedSeq(ChildLeaves, MaxKids - 1), t \in NodeTrees1}

RECURSIVE WellFormed(_)
\* Every leaf holds a byte and every node a child.
WellFormed(t) ==
    IF t.type = LEAF THEN Len(t.data) > 0
    ELSE Len(t.kids) > 0 /\ \A k \in 1..Len(t.kids) : WellFormed(t.kids[k])

BtIdle == [phase |-> "idle", tree |-> NoTree, source |-> <<>>, res |-> Thrown,
           tampered |-> FALSE]

BtInit == bts \in {[phase |-> "tree", tree |-> t, source |-> <<>>, res |-> Thrown,
                    tampered |-> FALSE] : t \in Trees2}

\* t.toByteArray()
BtEncode ==
    /\ bts.phase = "tree"
    /\ bts' = [bts EXCEPT !.phase = "bytes", !.source = toByteArray(bts.tree)]

\* The array is damaged on its way: one byte replaced.
BtOverwrite ==
    /\ bts.phase = "bytes" /\ ~bts.tampered
    /\ \E i \in 1..Len(bts.source), b \in TamperBytes :
          /\ b # bts.source[i]
          /\ bts' = [bts EXCEPT !.source = [bts.source EXCEPT ![i] = b],
                                !.tampered = TRUE]

\* The array is damaged on its way: cut short.
BtTruncate ==
    /\ bts.phase = "bytes" /\ ~bts.tampered
    /\ \E n \in 0..(Len(bts.source) - 1) :
          bts' = [bts EXCEPT !.source = SubSeq(bts.source, 1, n),
                             !.tampered = TRUE]

\* ByteTree.readByteTreeFromByteArray(source)
BtRead ==
    /\ bts.phase = "bytes"
    /\ bts' = [bts EXCEPT !.phase = "read",
                          !.res = readByteTreeFromByteArray(bts.source)]

(***************************************************************************)
(* arithm: large integers, the group modulo p and its exponent field.      *)
(* The model's group is the quadratic residues modulo 7 (order 3,          *)
(* generator 2), in place of the 4096-bit baseline group.                  *)
(***************************************************************************)
baselineParameters == [modulus |-> 7, order |-> 3, generator |-> 2, encoding |-> 1]

\* The weighted sum of the bytes, most significant first.
RECURSIVE ByteSum(_)
ByteSum(bytes) ==
    IF bytes = <<>> THEN 0
    ELSE ByteSum(SubSeq(bytes, 1, Len(bytes) - 1)) * ByteBase + bytes[Len(bytes)]

\* li.WORDSIZE
WORDSIZE == 28

\* new LargeInteger(byteArray): util.change_wordsize packs the bytes, least
\* significant first, into words of WORDSIZE bits, and the sign is 0 or 1.  A
\* negative first entry is or-ed in as an unsigned 32-bit number cut to the
\* word, which sets every bit of the word above it (arrays of at most three
\* entries fill one word).
LargeInteger(bytes) ==
    IF ByteSum(bytes) < 0 THEN Pow(2, WORDSIZE) + ByteSum(bytes) ELSE ByteSum(bytes)

\* LargeInteger.toByteArrayNoZero: no leading zero byte, one byte at least.
RECURSIVE toByteArrayNoZero(_)
toByteArrayNoZero(value) ==
    IF value < ByteBase THEN <<value>>
    ELSE Append(toByteArrayNoZero(value \div ByteBase), value % ByteBase)

RECURSIVE modPow(_, _, _)
modPow(base, exponent, modulus) ==
    IF exponent = 0 THEN 1 % modulus
    ELSE (base * modPow(base, exponent - 1, modulus)) % modulus

\* LargeInteger.legendre: the symbol of (this mod prime) for an odd prime.
legendre(value, prime) ==
    LET r == value % prime
        e == modPow(r, (prime - 1) \div 2, prime)
    IN  IF r = 0 THEN 0 ELSE IF e = 1 THEN 1 ELSE -1

\* A conversion that threw, and one that returned the value v.
Throws == [ok |-> FALSE, v |-> 0]
Returns(value) == [ok |-> TRUE, v |-> value]

\* ModPGroup.toElement on a raw byte array.
ModPToElement(group, bytes) ==
    LET value == LargeInteger(bytes)
    IN  IF group.encoding = 1 /\ legendre(value, group.modulus) # 1 THEN Throws
        ELSE IF group.modulus <= value THEN Throws
        ELSE Returns(value)

\* ModPGroup.toElementAlt
toElementAlt(group, byteTree) == ModPToElement(group, toByteArrayRaw(byteTree))

\* PPGroup.toElementAlt for the product of two copies of the group: each
\* component is read from child.value; a leaf has no children to read, and a
\* child that is a node holds no bytes.
PPtoElementAlt(group, byteTree) ==
    IF isLeaf(byteTree) \/ Len(byteTree.kids) < 2 THEN Throws
    ELSE LET c1 == byteTree.kids[1]
             c2 == byteTree.kids[2]
             e1 == IF isLeaf(c1) THEN ModPToElement(group, c1.data) ELSE Throws
             e2 == IF isLeaf(c2) THEN ModPToElement(group, c2.data) ELSE Throws
         IN  IF e1.ok /\ e2.ok THEN Returns(<<e1.v, e2.v>>) ELSE Throws

\* PField.toElement on a byte tree: new LargeInteger(param) wants a leaf.
PFieldToElement(group, byteTree) ==
    IF ~isLeaf(byteTree) THEN Throws
    ELSE Returns(LargeInteger(byteTree.data) % group.order)

\* ModPGroupElement mul, exp, inv and toByteTreeNoZero on values.
mul(group, a, b) == (a * b) % group.modulus
exp(group, a, e) == modPow(a, e, group.modulus)
inv(group, a) == modPow(a, group.modulus - 2, group.modulus)
toByteTreeNoZero(value) == ByteTreeOfBytes(toByteArrayNoZero(value))

\* The members of the group.
GroupElements(group) ==
    {v \in 1..(group.modulus - 1) : legendre(v, group.modulus) = 1}

\* crypto.sha256.hash: a fixed one-byte digest of the bytes, position-sensitive.
RECURSIVE Mix(_, _)
Mix(bytes, acc) ==
    IF bytes = <<>> THEN acc
    ELSE Mix(Tail(bytes), (acc * 31 + Head(bytes) + 1) % 251)
sha256(bytes) == <<Mix(bytes, 7)>>

(***************************************************************************)
(* crypto.SigmaProof and the ElectionGuard SchnorrProof                    *)
(***************************************************************************)
\* SchnorrProof.challenge of src/crypto: the digest of the raw bytes, in Fq.
SchnorrChallenge(group, bt) == LargeInteger(sha256(toByteArrayRaw(bt))) % group.order

\* An element of the group is <<v>> and an element of the product group is
\* <<v1, v2>>; hom is the basis of the exponentiation homomorphism.
byteTreeToCommitment(group, hom, byteTree) ==
    IF Len(hom) = 1
    THEN LET e == toElementAlt(group, byteTree)
         IN  IF e.ok THEN Returns(<<e.v>>) ELSE Throws
    ELSE PPtoElementAlt(group, byteTree)

byteTreeToReply(group, byteTree) == PFieldToElement(group, byteTree)

\* SchnorrProof.instanceToByteTree: instance.toByteTreeNoZero()
instanceToByteTree(instance) ==
    IF Len(instance) = 1 THEN toByteTreeNoZero(instance[1])
    ELSE ByteTreeOfTrees([i \in 1..Len(instance) |-> toByteTreeNoZero(instance[i])])

\* SchnorrProof.check: x^v * A = Hom(k), component by component.
SchnorrCheck(group, hom, instance, commitment, challenge, reply) ==
    \A i \in 1..Len(hom) :
        mul(group, exp(group, instance[i], challenge), commitment[i])
            = exp(group, hom[i], reply)

\* The catch block of SigmaProof.verify: "throw err;" ahead of "return false;".
CatchBlock == "throw"

\* SigmaProof.verify: "true", "false", or "throw" when it throws.
SigmaProofVerify(group, hom, label, instance, proof) ==
    LET r == readByteTreeFromByteArray(proof)
        pbt == r.tree
    IN  IF ~r.ok THEN CatchBlock
        ELSE IF ~isLeaf(pbt) /\ Len(pbt.kids) >= 2
        THEN LET cbt == pbt.kids[1]
                 commitment == byteTreeToCommitment(group, hom, cbt)
                 bt == ByteTreeOfTrees(<<asByteTree(label),
                                         instanceToByteTree(instance), cbt>>)
                 challenge == SchnorrChallenge(group, bt)
                 input == IF Len(pbt.kids) = 3
                          THEN byteTreeToReply(group, pbt.kids[3])
                          ELSE Returns(challenge)
                 challengeOk == input.v = challenge
                 reply == byteTreeToReply(group, pbt.kids[2])
             IN  IF ~commitment.ok \/ ~input.ok \/ ~reply.ok THEN CatchBlock
                 ELSE IF SchnorrCheck(group, hom, instance, commitment.v,
                                      challenge, reply.v) /\ challengeOk
                      THEN "true" ELSE "false"
        ELSE "false"

\* A verifyElectionGuard that leaves the challenge of the record out of the
\* proof node.
verifyElectionGuardNoChallenge(group, hom, label, instance, commitment, challenge, response) ==
    LET instanceElement == byteTreeToCommitment(group, hom, instance)
        proof == ByteTreeOfTrees(<<commitment, response>>)
    IN  IF ~instanceElement.ok THEN "throw"
        ELSE SigmaProofVerify(group, hom, label, instanceElement.v, toByteArray(proof))

\* SchnorrProof.verifyElectionGuard: the proof node is [commitment, response,
\* challenge], serialized and handed to verify.
verifyElectionGuard(group, hom, label, instance, commitment, challenge, response) ==
    LET instanceElement == byteTreeToCommitment(group, hom, instance)
        proof == ByteTreeOfTrees(<<commitment, response, asByteTree(challenge)>>)
    IN  IF ~instanceElement.ok THEN "throw"
        ELSE SigmaProofVerify(group, hom, label, instanceElement.v, toByteArray(proof))

\* SigmaProofPara.byteTreeToCommitment / byteTreeToReply: one child per proof.
ParaByteTreeToCommitment(group, homs, byteTree) ==
    IF isLeaf(byteTree) \/ Len(byteTree.kids) # Len(homs) THEN Throws
    ELSE LET cs == [i \in 1..Len(homs) |->
                       byteTreeToCommitment(group, homs[i], byteTree.kids[i])]
         IN  IF \A i \in 1..Len(homs) : cs[i].ok
             THEN Returns([i \in 1..Len(homs) |-> cs[i].v]) ELSE Throws

ParaByteTreeToReply(group, homs, byteTree) ==
    IF isLeaf(byteTree) \/ Len(byteTree.kids) # Len(homs) THEN Throws
    ELSE LET rs == [i \in 1..Len(homs) |-> byteTreeToReply(group, byteTree.kids[i])]
         IN  IF \A i \in 1..Len(homs) : rs[i].ok
             THEN Returns([i \in 1..Len(homs) |-> rs[i].v]) ELSE Throws

\* SigmaProofOr.byteTreeToReply: [challenges, replies].
OrByteTreeToReply(group, homs, byteTree) ==
    IF isLeaf(byteTree) \/ Len(byteTree.kids) # 2 THEN Throws
    ELSE LET cbt == byteTree.kids[1]
             rbt == byteTree.kids[2]
         IN  IF isLeaf(cbt) \/ Len(cbt.kids) # Len(homs) THEN Throws
             ELSE LET challenge == ParaByteTreeToReply(group, homs, cbt)
                      reply == ParaByteTreeToReply(group, homs, rbt)
                  IN  IF challenge.ok /\ reply.ok
                      THEN Returns(<<challenge.v, reply.v>>) ELSE Throws

\* SigmaProofOr.sum in the field of exponents.
RECURSIVE OrSum(_, _)
OrSum(group, array) ==
    IF Len(array) = 1 THEN array[1]
    ELSE (OrSum(group, SubSeq(array, 1, Len(array) - 1)) + array[Len(array)])
             % group.order

\* SigmaProofOr.check
OrCheck(group, homs, instances, commitment, challenge, reply) ==
    /\ OrSum(group, reply[1]) = challenge
    /\ \A i \in 1..Len(homs) :
          SchnorrCheck(group, homs[i], instances[i], commitment[i],
                       reply[1][i], reply[2][i])

\* SigmaProof.verify on a SigmaProofOr whose instanceToByteTree gives the
\* first instance only. A third child would be read as a reply and then
\* asked for equals, which an array does not have.
SigmaProofOrVerify(group, homs, label, instances, proof) ==
    LET r == readByteTreeFromByteArray(proof)
        pbt == r.tree
    IN  IF ~r.ok THEN CatchBlock
        ELSE IF ~isLeaf(pbt) /\ Len(pbt.kids) >= 2
        THEN LET cbt == pbt.kids[1]
                 commitment == ParaByteTreeToCommitment(group, homs, cbt)
                 bt == ByteTreeOfTrees(<<asByteTree(label),
                                         instanceToByteTree(instances[1]), cbt>>)
                 challenge == SchnorrChallenge(group, bt)
                 reply == OrByteTreeToReply(group, homs, pbt.kids[2])
             IN  IF ~commitment.ok \/ Len(pbt.kids) = 3 \/ ~reply.ok THEN CatchBlock
                 ELSE IF OrCheck(group, homs, instances, commitment.v,
                                 challenge, reply.v)
                      THEN "true" ELSE "false"
        ELSE "false"

(***************************************************************************)
(* crypto/utils: conversions of the record's decimal strings. A decimal    *)
(* string is the integer it denotes, negative ones included; NotDecimal    *)
(* stands for a string BigInt() refuses.                                   *)
(***************************************************************************)
NotDecimal == -1000

\* What a conversion gave: a value, an Error object, or an exception.
Value(v) == [kind |-> "value", v |-> v]
ErrorObject == [kind |-> "error", v |-> 0]
Raised == [kind |-> "throw", v |-> 0]
isError(obj) == obj.kind = "error"

\* Hexadecimal strings as sequences of the digits 0..15 and the sign.
Minus == 16
RECURSIVE HexDigits(_)
HexDigits(n) == IF n < 16 THEN <<n>> ELSE Append(HexDigits(n \div 16), n % 16)

\* new LargeInteger(hex): a sign, then the digits.
RECURSIVE HexValue(_)
HexValue(hex) ==
    IF hex = <<>> THEN 0
    ELSE IF hex[1] = Minus THEN 0 - HexValue(Tail(hex))
    ELSE 16 * HexValue(SubSeq(hex, 1, Len(hex) - 1)) + hex[Len(hex)]

\* strDecToHex: BigInt(decLiStr).toString(16)
strDecToHex(decLiStr) ==
    IF decLiStr = NotDecimal THEN Raised
    ELSE IF decLiStr < 0 THEN Value(<<Minus>> \o HexDigits(0 - decLiStr))
    ELSE Value(HexDigits(decLiStr))

\* parseInt(pair, 16) on two characters: a sign and a digit, a digit and
\* whatever stops the parse, or two digits.
parseInt(pair) ==
    IF pair[1] = Minus THEN 0 - pair[2]
    ELSE IF pair[2] = Minus THEN pair[1]
    ELSE 16 * pair[1] + pair[2]

\* util.hexToByteArray: a leading zero for an odd length, then two characters
\* an entry.
hexToByteArray(hex) ==
    LET even == IF Len(hex) % 2 = 1 THEN <<0>> \o hex ELSE hex
    IN  [i \in 1..(Len(even) \div 2) |-> parseInt(<<even[2 * i - 1], even[2 * i]>>)]

\* util.hexToByteArray(BigInt(decLiStr).toString(16))
strDecToByteArray(decLiStr) ==
    LET hex == strDecToHex(decLiStr)
    IN  IF hex.kind = "throw" THEN Raised ELSE Value(hexToByteArray(hex.v))

strDecToByteTree(decLiStr) ==
    LET bytes == strDecToByteArray(decLiStr)
    IN  IF bytes.kind = "throw" THEN Raised ELSE Value(asByteTree(bytes.v))

\* Only toElementAlt sits inside the try.
strDecToModPGroupElement(decLiStr, group) ==
    LET byteTree == strDecToByteTree(decLiStr)
    IN  IF byteTree.kind # "value" THEN byteTree
        ELSE LET element == toElementAlt(group, byteTree.v)
             IN  IF element.ok THEN Value(element.v) ELSE ErrorObject

strDecToPRingElement(decLiStr, group) ==
    LET byteTree == strDecToByteTree(decLiStr)
    IN  IF byteTree.kind # "value" THEN byteTree
        ELSE LET element == PFieldToElement(group, byteTree.v)
             IN  IF element.ok THEN Value(element.v) ELSE ErrorObject

\* strDecToModPGroupElement on its own: every decimal string of an integer up
\* to MaxValue in size and a string that is no number, in the model's group
\* and in the quadratic residues modulo 23.
MaxValue == 40
CvGroups ==
    {baselineParameters, [modulus |-> 23, order |-> 11, generator |-> 2, encoding |-> 1]}

CvInit ==
    sgs \in {[phase |-> "string", decLiStr |-> v, group |-> G, result |-> Raised] :
                v \in (0 - MaxValue)..MaxValue \cup {NotDecimal}, G \in CvGroups}

CvConvert ==
    /\ sgs.phase = "string"
    /\ sgs' = [sgs EXCEPT !.phase = "done",
                          !.result = strDecToModPGroupElement(sgs.decLiStr, sgs.group)]

\* strDecToByteTree and strDecToPRingElement on the same inputs.
CvByteTree ==
    /\ sgs.phase = "string"
    /\ sgs' = [sgs EXCEPT !.phase = "byteTree", !.result = strDecToByteTree(sgs.decLiStr)]

CvRing ==
    /\ sgs.phase = "string"
    /\ sgs' = [sgs EXCEPT !.phase = "ring",
                          !.result = strDecToPRingElement(sgs.decLiStr, sgs.group)]

(***************************************************************************)
(* Elements with the field or group they belong to.  A field is given by   *)
(* its order, a group by its parameters; an operation gives an element, a  *)
(* truth value, or throws.                                                 *)
(***************************************************************************)
PFieldElement(pField, value) ==
    [thrown |-> FALSE, of |-> pField, value |-> value, truth |-> FALSE]
ModPGroupElement(pGroup, value) ==
    [thrown |-> FALSE, of |-> pGroup.modulus, value |-> value, truth |-> FALSE]
Truth(b) == [thrown |-> FALSE, of |-> 0, value |-> 0, truth |-> b]
Threw == [thrown |-> TRUE, of |-> 0, value |-> 0, truth |-> FALSE]

\* PRingElement.assertType and PGroupElement.assertType between two field
\* elements or two group elements: PField.equals compares the orders,
\* ModPGroup.equals the moduli first.
assertType(this, other) == this.of = other.of

\* LargeInteger.modInv of a value that is not 0 modulo the prime.
modInv(value, prime) == CHOOSE x \in 0..(prime - 1) : (x * value) % prime = 1

PFieldElementEquals(this, other) ==
    IF ~assertType(this, other) THEN Threw ELSE Truth(this.value = other.value)

\* this.pRing.order.sub(this.value)
PFieldElementNeg(this) == PFieldElement(this.of, this.of - this.value)

\* mul does not call assertType.
PFieldElementMul(this, other) ==
    PFieldElement(this.of, (this.value * other.value) % this.of)

PFieldElementAdd(this, other) ==
    IF ~assertType(this, other) THEN Threw
    ELSE PFieldElement(this.of, (this.value + other.value) % this.of)

PFieldElementSub(this, other) ==
    IF ~assertType(this, other) THEN Threw
    ELSE PFieldElement(this.of, (this.value - other.value) % this.of)

PFieldElementInv(this) == PFieldElement(this.of, modInv(this.value, this.of))

ModPGroupElementEquals(this, other) ==
    IF ~assertType(this, other) THEN Threw ELSE Truth(this.value = other.value)

ModPGroupElementMul(pGroup, this, factor) ==
    IF ~assertType(this, factor) THEN Threw
    ELSE ModPGroupElement(pGroup, (this.value * factor.value) % pGroup.modulus)

\* exp takes exponent.value of any PFieldElement.
ModPGroupElementExp(pGroup, this, exponent) ==
    ModPGroupElement(pGroup, modPow(this.value, exponent.value, pGroup.modulus))

\* PPGroup.prod of a list of elements for the product of the groups pGroups:
\* the first component of the product, or an exception.
PPGroupProd(pGroups, value) ==
    IF Len(value) # Len(pGroups) THEN Threw
    ELSE IF \E i \in 1..Len(pGroups) : value[i].of # pGroups[i].modulus THEN Threw
    ELSE value[1]

\* The operations on their own: x and y are made by PField.toElement from
\* one byte in the fields of the two groups, a and b are members of the two
\* groups.
ArBytes == {0, 1, 2, 5, 12}
ArMembers == {1, 2, 4}

ArInit ==
    sgs \in {[phase |-> "operands", F |-> <<G[1].order, G[2].order>>,
              G |-> <<G[3], G[4]>>,
              x |-> PFieldElement(G[1].order,
                                  PFieldToElement(G[1], ByteTreeOfBytes(<<xy[1]>>)).v),
              y |-> PFieldElement(G[2].order,
                                  PFieldToElement(G[2], ByteTreeOfBytes(<<xy[2]>>)).v),
              a |-> ModPGroupElement(G[3], ab[1]),
              b |-> ModPGroupElement(G[4], ab[2]),
              result |-> Threw] :
                G \in CvGroups \X CvGroups \X CvGroups \X CvGroups,
                xy \in ArBytes \X ArBytes, ab \in ArMembers \X ArMembers}

ArDone(op, result) ==
    /\ sgs.phase = "operands"
    /\ sgs' = [sgs EXCEPT !.phase = op, !.result = result]

ArNeg == ArDone("neg", PFieldElementNeg(sgs.x))
\* inv of an element other than 0.
ArInv == sgs.x.value # 0 /\ ArDone("inv", PFieldElementInv(sgs.x))
ArAdd == ArDone("add", PFieldElementAdd(sgs.x, sgs.y))
ArSub == ArDone("sub", PFieldElementSub(sgs.x, sgs.y))
ArMul == ArDone("mul", PFieldElementMul(sgs.x, sgs.y))
ArEquals == ArDone("equals", PFieldElementEquals(sgs.x, sgs.y))
ArGroupEquals == ArDone("groupEquals", ModPGroupElementEquals(sgs.a, sgs.b))
ArGroupMul == ArDone("groupMul", ModPGroupElementMul(sgs.G[1], sgs.a, sgs.b))
ArGroupExp == ArDone("groupExp", ModPGroupElementExp(sgs.G[1], sgs.a, sgs.x))
ArProd == ArDone("prod", PPGroupProd(<<sgs.G[1], sgs.G[1]>>, <<sgs.a, sgs.b>>))

\* ModPGroupElement.toByteTree: modulusByteLength bytes, one in this group.
toByteTree(value) == ByteTreeOfBytes(<<value>>)

\* The label every proof of the model is made under.
SigmaLabel == <<1>>

\* What a proof node may hold as a child: one-byte leaves that are members of
\* the group (1, 2, 4), 0, a non-residue (3), a residue that is not reduced
\* (8), and a node.
ProofChildren ==
    {MkLeaf(<<v>>) : v \in {0, 1, 2, 3, 4, 8}} \cup {MkNode(<<MkLeaf(<<1>>)>>)}

\* Proofs as byte trees: a leaf, and nodes of up to three children.
ProofTrees ==
    {MkLeaf(<<1>>)} \cup {ByteTreeOfTrees(k) : k \in BoundedSeq(ProofChildren, 3)}

SgIdle == [phase |-> "idle", instance |-> 1, tree |-> NoTree, proof |-> <<>>,
           cut |-> FALSE, verdict |-> "none"]

SgInit ==
    sgs \in {[phase |-> "tree", instance |-> x, tree |-> t, proof |-> <<>>,
              cut |-> FALSE, verdict |-> "none"] :
                x \in GroupElements(baselineParameters), t \in ProofTrees}

\* proof.toByteArray(), as verifyElectionGuard prepares the proof.
SgEncode ==
    /\ sgs.phase = "tree"
    /\ sgs' = [sgs EXCEPT !.phase = "bytes", !.proof = toByteArray(sgs.tree)]

\* The caller hands over the first n bytes only.
SgTruncate ==
    /\ sgs.phase = "bytes" /\ ~sgs.cut
    /\ \E n \in 0..(Len(sgs.proof) - 1) :
          sgs' = [sgs EXCEPT !.proof = SubSeq(sgs.proof, 1, n), !.cut = TRUE]

\* SigmaProof.verify(label, instance, sha256, proof)
SgVerify ==
    /\ sgs.phase = "bytes"
    /\ sgs' = [sgs EXCEPT !.phase = "done",
                          !.verdict = SigmaProofVerify(baselineParameters,
                                          <<baselineParameters.generator>>,
                                          SigmaLabel, <<sgs.instance>>, sgs.proof)]

\* verifyElectionGuard on its own: a proof of the record, given by the numbers
\* its decimal strings denote, for the Schnorr homomorphism <<g>> or the
\* Chaum-Pedersen homomorphism <<g, K>>.
MaxChallenge == 5   \* the largest challenge and response a proof carries
GdHoms ==
    {<<baselineParameters.generator>>} \cup
    {<<baselineParameters.generator, K>> : K \in {2, 4}}

\* The byte tree of an instance or of a commitment, as the records build it.
GdByteTree(values) ==
    IF Len(values) = 1 THEN toByteTree(values[1])
    ELSE ByteTreeOfTrees([i \in 1..Len(values) |-> toByteTree(values[i])])

GdInit ==
    \E hom \in GdHoms :
        sgs \in {[phase |-> "record", hom |-> hom, instance |-> x, commitment |-> a,
                  challenge |-> c, response |-> k, verdict |-> "none"] :
                    x \in [1..Len(hom) -> GroupElements(baselineParameters)],
                    a \in [1..Len(hom) -> {1, 2, 3, 4}],
                    c \in 0..MaxChallenge, k \in 0..MaxChallenge}

\* schnorr.verifyElectionGuard(label, instance, commitment, challenge, response)
GdVerify ==
    /\ sgs.phase = "record"
    /\ sgs' = [sgs EXCEPT !.phase = "done",
                  !.verdict = verifyElectionGuard(baselineParameters, sgs.hom,
                      SigmaLabel, GdByteTree(sgs.instance), GdByteTree(sgs.commitment),
                      toByteArrayNoZero(sgs.challenge),
                      asByteTree(toByteArrayNoZero(sgs.response)))]

(***************************************************************************)
(* CLIRecorder                                                             *)
(***************************************************************************)
NewRecorder == [hasFailures |-> FALSE, out |-> <<>>]

\* A recorder whose flag follows the last call only.
RecordLastOnly(r, status, context, name) ==
    [hasFailures |-> ~status,
     out |-> Append(r.out, [status |-> status, context |-> context, name |-> name])]

\* CLIRecorder.record: the flag, then the printed line.
Record(r, status, context, name) ==
    [hasFailures |-> r.hasFailures \/ ~status,
     out |-> Append(r.out, [status |-> status, context |-> context, name |-> name])]

SampleNames == {"SchnorrProof", "TallySum"}

RcRecord ==
    /\ Len(recorder.out) < MaxCalls
    /\ \E status \in BOOLEAN, name \in SampleNames :
          recorder' = Record(recorder, status, <<"Election">>, name)

(***************************************************************************)
(* The verification records. A run is the recorder so far and whether an   *)
(* exception is on its way up; every verify takes a run and gives a run.   *)
(***************************************************************************)
Run(r) == [rec |-> r, thrown |-> FALSE]
record(st, status, context, name) ==
    IF st.thrown THEN st ELSE [st EXCEPT !.rec = Record(@, status, context, name)]
throw(st) == IF st.thrown THEN st ELSE [st EXCEPT !.thrown = TRUE]

\* VSchnorrProofRecord.verify
VSchnorrProofRecordVerify(st, context, label, proof, instance) ==
    LET group == baselineParameters
        commitment == strDecToByteArray(proof.commitment)
        challenge == strDecToByteArray(proof.challenge)
        response == strDecToByteArray(proof.response)
        raised == \/ commitment.kind = "throw" \/ challenge.kind = "throw"
                  \/ response.kind = "throw"
        verificationResult ==
            verifyElectionGuard(group, <<group.generator>>, label,
                toByteTree(instance), asByteTree(commitment.v), challenge.v,
                asByteTree(response.v))
    IN  IF st.thrown THEN st
        ELSE record(st, ~raised /\ verificationResult = "true", context, "SchnorrProof")

\* A VChaumPedersenProofRecord.verify without its catch block.
VChaumPedersenProofRecordVerifyNoCatch(st, context, label, proof, A, B, K) ==
    LET group == baselineParameters
        challenge == strDecToByteArray(proof.challenge)
        response == strDecToByteArray(proof.response)
        commitment1 == strDecToByteTree(proof.commitment.public_key)
        commitment2 == strDecToByteTree(proof.commitment.ciphertext)
        raised == \/ challenge.kind = "throw" \/ response.kind = "throw"
                  \/ commitment1.kind = "throw" \/ commitment2.kind = "throw"
        verificationResult ==
            verifyElectionGuard(group, <<group.generator, K>>, label,
                ByteTreeOfTrees(<<toByteTree(A), toByteTree(B)>>),
                ByteTreeOfTrees(<<commitment1.v, commitment2.v>>), challenge.v,
                asByteTree(response.v))
    IN  IF st.thrown THEN st
        ELSE IF K = Undefined \/ raised \/ verificationResult = "throw" THEN throw(st)
        ELSE record(st, verificationResult = "true", context, "ChaumPedersenProof")

\* VChaumPedersenProofRecord.verify; K is Undefined when no key was handed in.
VChaumPedersenProofRecordVerify(st, context, label, proof, A, B, K) ==
    LET group == baselineParameters
        challenge == strDecToByteArray(proof.challenge)
        response == strDecToByteArray(proof.response)
        commitment1 == strDecToByteTree(proof.commitment.public_key)
        commitment2 == strDecToByteTree(proof.commitment.ciphertext)
        raised == \/ challenge.kind = "throw" \/ response.kind = "throw"
                  \/ commitment1.kind = "throw" \/ commitment2.kind = "throw"
        verificationResult ==
            verifyElectionGuard(group, <<group.generator, K>>, label,
                ByteTreeOfTrees(<<toByteTree(A), toByteTree(B)>>),
                ByteTreeOfTrees(<<commitment1.v, commitment2.v>>), challenge.v,
                asByteTree(response.v))
    IN  IF st.thrown THEN st
        ELSE IF K = Undefined THEN throw(st)
        ELSE record(st, ~raised /\ verificationResult = "true", context,
                    "ChaumPedersenProof")

\* VZeroOrOneProofRecord.verify
VZeroOrOneProofRecordVerify(st, context, label, zero_proof, one_proof, A, B, K) ==
    LET group == baselineParameters
        zeroChallenge == strDecToByteArray(zero_proof.challenge)
        zeroResponse == strDecToByteArray(zero_proof.response)
        oneChallenge == strDecToByteArray(one_proof.challenge)
        oneResponse == strDecToByteArray(one_proof.response)
        zeroCommitment1 == strDecToByteTree(zero_proof.commitment.public_key)
        zeroCommitment2 == strDecToByteTree(zero_proof.commitment.ciphertext)
        oneCommitment1 == strDecToByteTree(one_proof.commitment.public_key)
        oneCommitment2 == strDecToByteTree(one_proof.commitment.ciphertext)
        raised == \/ zeroChallenge.kind = "throw" \/ zeroResponse.kind = "throw"
                  \/ oneChallenge.kind = "throw" \/ oneResponse.kind = "throw"
                  \/ zeroCommitment1.kind = "throw" \/ zeroCommitment2.kind = "throw"
                  \/ oneCommitment1.kind = "throw" \/ oneCommitment2.kind = "throw"
        pair == <<group.generator, K>>
        instances == << <<A, B>>, <<A, mul(group, B, inv(group, group.generator))>> >>
        commitments == ByteTreeOfTrees(<<
            ByteTreeOfTrees(<<zeroCommitment1.v, zeroCommitment2.v>>),
            ByteTreeOfTrees(<<oneCommitment1.v, oneCommitment2.v>>) >>)
        responses == ByteTreeOfTrees(<<
            ByteTreeOfTrees(<<asByteTree(zeroChallenge.v), asByteTree(oneChallenge.v)>>),
            ByteTreeOfTrees(<<asByteTree(zeroResponse.v), asByteTree(oneResponse.v)>>) >>)
        proof == ByteTreeOfTrees(<<commitments, responses>>)
        verificationResult ==
            SigmaProofOrVerify(group, <<pair, pair>>, label, instances,
                               toByteArray(proof))
    IN  IF st.thrown THEN st
        ELSE IF K = Undefined THEN throw(st)
        ELSE record(st, ~raised /\ verificationResult = "true", context,
                    "ZeroOrOneProof")

\* A sum that reduces from the pair of generators.
RECURSIVE sumFromGenerators(_, _)
sumFromGenerators(group, ciphertexts) ==
    IF ciphertexts = <<>> THEN <<group.generator, group.generator>>
    ELSE LET rest == sumFromGenerators(group, SubSeq(ciphertexts, 1, Len(ciphertexts) - 1))
             last == ciphertexts[Len(ciphertexts)]
         IN  <<mul(group, rest[1], last[1]), mul(group, rest[2], last[2])>>

\* elgamal.sum and createJointPublicKey: reduce from the identity.
RECURSIVE sum(_, _)
sum(group, ciphertexts) ==
    IF ciphertexts = <<>> THEN <<1, 1>>
    ELSE LET rest == sum(group, SubSeq(ciphertexts, 1, Len(ciphertexts) - 1))
             last == ciphertexts[Len(ciphertexts)]
         IN  <<mul(group, rest[1], last[1]), mul(group, rest[2], last[2])>>

RECURSIVE createJointPublicKey(_, _)
createJointPublicKey(group, publicKeys) ==
    IF publicKeys = <<>> THEN 1
    ELSE mul(group, createJointPublicKey(group, SubSeq(publicKeys, 1, Len(publicKeys) - 1)),
             publicKeys[Len(publicKeys)])

\* elgamal.sum on its own, on every list of up to MaxTerms ciphertexts.
MaxTerms == 3
SmInit ==
    LET G == GroupElements(baselineParameters)
    IN  sgs \in {[phase |-> "list", ciphertexts |-> cs, result |-> <<>>] :
                    cs \in BoundedSeq(G \X G, MaxTerms)}

SmSum ==
    /\ sgs.phase = "list"
    /\ sgs' = [sgs EXCEPT !.phase = "done",
                          !.result = sum(baselineParameters, sgs.ciphertexts)]

\* array[index] with JavaScript's 0-based index, Undefined beyond the end.
Item(array, index) == IF index < Len(array) THEN array[index + 1] ELSE Undefined
IsDefined(array, index) == index < Len(array)

\* VDecryptionShareRecord.verify: the run and the share element it returns.
VDecryptionShareRecordVerify(st, parent_context, label, share, publicKey, alpha, index) ==
    LET context == Append(parent_context, "Share #" \o ToString(index))
        shareElement == strDecToModPGroupElement(share.share, baselineParameters)
    IN  IF st.thrown THEN [st |-> st, element |-> Raised]
        ELSE IF publicKey = Undefined \/ shareElement.kind = "throw"
        THEN [st |-> throw(st), element |-> Raised]
        ELSE IF isError(shareElement)
        THEN [st |-> record(st, FALSE, context, "ShareLoading"), element |-> shareElement]
        ELSE [st |-> VChaumPedersenProofRecordVerify(st, context, label, share.proof,
                         publicKey, shareElement.v, alpha),
              element |-> shareElement]

\* shareRecords.map(share => share.verify(recorder)), from share i on: the
\* run and the share elements so far.
Collect(shares, one) == [st |-> one.st, result |-> Append(shares.result, one.element)]

RECURSIVE VerifyShares(_, _, _, _, _, _, _)
VerifyShares(shares, context, label, list, keys, alpha, i) ==
    IF i >= Len(list) \/ shares.st.thrown THEN shares
    ELSE VerifyShares(
             Collect(shares,
                 VDecryptionShareRecordVerify(shares.st, context, label, list[i + 1],
                                              Item(keys, i), alpha, i)),
             context, label, list, keys, alpha, i + 1)

\* shareElements.reduce((value, next) => value.mul(next)) of a non-empty array.
RECURSIVE Combined(_, _)
Combined(group, result) ==
    IF Len(result) = 1 THEN result[1].v
    ELSE mul(group, Combined(group, SubSeq(result, 1, Len(result) - 1)),
             result[Len(result)].v)

\* The try block of the tally sum: TallySum, or LoadingBallots from the catch.
VerifyTallySum(st, context, selectionEncryptions, alpha, beta) ==
    LET group == baselineParameters
        A == [i \in 1..Len(selectionEncryptions) |->
                 strDecToModPGroupElement(selectionEncryptions[i].public_key, group)]
        B == [i \in 1..Len(selectionEncryptions) |->
                 strDecToModPGroupElement(selectionEncryptions[i].ciphertext, group)]
        loaded == \A i \in 1..Len(selectionEncryptions) :
                      A[i].kind = "value" /\ B[i].kind = "value"
        calculatedEncryptedSum ==
            sum(group, [i \in 1..Len(selectionEncryptions) |-> <<A[i].v, B[i].v>>])
    IN  IF loaded
        THEN record(st, calculatedEncryptedSum = <<alpha, beta>>, context, "TallySum")
        ELSE record(st, FALSE, context, "LoadingBallots")

\* VDecryptionRecord.verify, the cleartext after DecryptionMatches.
VerifyCleartext(st, context, gMessage, clearElement) ==
    IF clearElement.kind = "throw" THEN throw(st)
    ELSE IF isError(clearElement) THEN st
    ELSE record(st,
             exp(baselineParameters, baselineParameters.generator, clearElement.v)
                 = gMessage,
             context, "CleartextMatches")

\* VDecryptionRecord.verify, once the shares have been verified.
VerifyDecryption(shares, context, decryption, selectionEncryptions, alpha, beta, gMessage) ==
    IF shares.st.thrown THEN shares.st
    ELSE IF \E i \in 1..Len(shares.result) : shares.result[i].kind # "value"
    THEN record(shares.st, FALSE, context, "SharesLoading")
    ELSE IF shares.result = <<>> THEN throw(shares.st)
    ELSE IF isError(beta) \/ isError(gMessage)
    THEN record(shares.st, FALSE, context, "DecryptionData")
    ELSE VerifyCleartext(
             record(IF decryption.tally
                    THEN VerifyTallySum(shares.st, context, selectionEncryptions,
                                        alpha, beta.v)
                    ELSE shares.st,
                    mul(baselineParameters, beta.v,
                        inv(baselineParameters,
                            Combined(baselineParameters, shares.result))) = gMessage.v,
                    context, "DecryptionMatches"),
             context, gMessage.v,
             strDecToPRingElement(decryption.cleartext, baselineParameters))

\* VDecryptionRecord.verify, once alpha, beta and the decrypted value have
\* been converted.
VerifyDecryptionValues(st, context, label, decryption, selectionEncryptions, keys, alpha, beta, gMessage) ==
    IF alpha.kind = "throw" \/ beta.kind = "throw" \/ gMessage.kind = "throw"
    THEN throw(st)
    ELSE IF isError(alpha) THEN record(st, FALSE, context, "AlphaLoading")
    ELSE VerifyDecryption(
             VerifyShares([st |-> st, result |-> <<>>], context, label,
                          decryption.shares, keys, alpha.v, 0),
             context, decryption, selectionEncryptions, alpha.v, beta, gMessage)

\* VDecryptionRecord.verify
VDecryptionRecordVerify(st, parent_context, label, decryption, selectionEncryptions, keys, selectionIndex) ==
    IF st.thrown THEN st
    ELSE IF keys = <<>> THEN throw(st)
    ELSE VerifyDecryptionValues(st,
             Append(parent_context, "Selection #" \o ToString(selectionIndex)),
             label, decryption, selectionEncryptions, keys,
             strDecToModPGroupElement(decryption.encrypted.public_key, baselineParameters),
             strDecToModPGroupElement(decryption.encrypted.ciphertext, baselineParameters),
             strDecToModPGroupElement(decryption.decrypted, baselineParameters))

\* new VCoefficientCommitmentsRecord(...): the first coefficient as a group
\* element, or an exception (no commitment at all, or a first key that does
\* not convert).
NewVCoefficientCommitmentsRecord(commitments) ==
    IF commitments = <<>> THEN Raised
    ELSE LET element == strDecToModPGroupElement(commitments[1].public_key,
                                                 baselineParameters)
         IN  IF element.kind = "value" THEN element ELSE Raised

\* trustee_public_keys.map(new VCoefficientCommitmentsRecord) inside the try:
\* every record, or none.
vCoefficients(e) ==
    IF \A i \in 1..Len(e.trustee_public_keys) :
           NewVCoefficientCommitmentsRecord(e.trustee_public_keys[i]).kind = "value"
    THEN [i \in 1..Len(e.trustee_public_keys) |->
             [commitments |-> e.trustee_public_keys[i], trusteeIndex |-> i,
              firstCoefficientElement |->
                  NewVCoefficientCommitmentsRecord(e.trustee_public_keys[i]).v]]
    ELSE <<>>

publicKeys(e) ==
    [i \in 1..Len(vCoefficients(e)) |-> vCoefficients(e)[i].firstCoefficientElement]

\* VCoefficientCommitmentRecord.verify
VCoefficientCommitmentRecordVerify(st, parent_context, commitment, baseHash, index) ==
    LET context == Append(parent_context,
                          "Coefficient #" \o ToString(index) \o " commitment")
        publicKeyElement == strDecToModPGroupElement(commitment.public_key,
                                                     baselineParameters)
    IN  IF st.thrown THEN st
        ELSE IF publicKeyElement.kind = "throw" THEN throw(st)
        ELSE IF isError(publicKeyElement)
        THEN record(st, FALSE, context, "CoefficientCommitmentLoading")
        ELSE VSchnorrProofRecordVerify(st, context, baseHash, commitment.proof,
                                       publicKeyElement.v)

RECURSIVE VerifyCommitments(_, _, _, _, _)
VerifyCommitments(st, context, commitments, baseHash, i) ==
    IF i >= Len(commitments) \/ st.thrown THEN st
    ELSE VerifyCommitments(
             VCoefficientCommitmentRecordVerify(st, context, commitments[i + 1],
                                                baseHash, i),
             context, commitments, baseHash, i + 1)

\* VCoefficientCommitmentsRecord.verify
VCoefficientCommitmentsRecordVerify(st, e, vCoefficient) ==
    LET context == <<"Election", "Trustee #" \o ToString(vCoefficient.trusteeIndex)
                                     \o " public keys">>
        counted == record(st, Len(vCoefficient.commitments) = e.parameters.threshold,
                          context, "NumberOfCoefficients")
    IN  VerifyCommitments(counted, context, vCoefficient.commitments, e.base_hash, 0)

\* vCoefficients.map(vCoefficient => vCoefficient.verify(recorder))
RECURSIVE VerifyCoefficients(_, _, _)
VerifyCoefficients(st, e, i) ==
    IF i > Len(vCoefficients(e)) \/ st.thrown THEN st
    ELSE VerifyCoefficients(
             VCoefficientCommitmentsRecordVerify(st, e, vCoefficients(e)[i]), e, i + 1)

\* The contest schema inferred from the first cast ballot.
contestInfoArray(e) ==
    IF Len(e.cast_ballots) > 0
    THEN [c \in 1..Len(e.cast_ballots[1].contests) |->
             [numSelections |-> Len(e.cast_ballots[1].contests[c].selections),
              maxSelections |-> e.cast_ballots[1].contests[c].max_selections]]
    ELSE <<>>

\* The selections of a contest as ciphertext pairs; Raised when one of them
\* does not convert (the error is thrown inside the try block).
LoadSelections(selections) ==
    LET c1(i) == strDecToModPGroupElement(selections[i].message.public_key,
                                          baselineParameters)
        c2(i) == strDecToModPGroupElement(selections[i].message.ciphertext,
                                          baselineParameters)
    IN  IF \A i \in 1..Len(selections) : c1(i).kind = "value" /\ c2(i).kind = "value"
        THEN Value([i \in 1..Len(selections) |-> <<c1(i).v, c2(i).v>>])
        ELSE Raised

RECURSIVE VerifySelections(_, _, _, _, _, _, _)
VerifySelections(st, context, label, contest, selections, publicKey, i) ==
    IF i >= Len(selections) \/ st.thrown THEN st
    ELSE VerifySelections(
             VZeroOrOneProofRecordVerify(st,
                 Append(context, "Selection #" \o ToString(i)), label,
                 contest.selections[i + 1].zero_proof,
                 contest.selections[i + 1].one_proof,
                 selections[i + 1][1], selections[i + 1][2], publicKey),
             context, label, contest, selections, publicKey, i + 1)

\* The catch of VEncryptedBallotRecord.verify
Caught(st, context) ==
    IF st.thrown THEN record([st EXCEPT !.thrown = FALSE], FALSE, context, "CastBallot")
    ELSE st

\* The try block of VEncryptedBallotRecord.verify, once the selections and the
\* contest's limit have been converted.
VerifyContestProofs(st, context, label, contest, publicKey, selections, nElement) ==
    LET group == baselineParameters
        encryptedSum == sum(group, selections.v)
        gnInv == inv(group, exp(group, group.generator, nElement.v))
    IN  IF selections.kind # "value" \/ nElement.kind # "value"
        THEN record(st, FALSE, context, "CastBallot")
        ELSE Caught(
                 VerifySelections(
                     VChaumPedersenProofRecordVerify(st, context, label,
                         contest.num_selections_proof, encryptedSum[1],
                         mul(group, encryptedSum[2], gnInv), publicKey),
                     context, label, contest, selections.v, publicKey, 0),
                 context)

\* The body of encryptedBallot.contests.map(...) in VEncryptedBallotRecord.verify
VerifyBallotContest(st, parent_context, label, contest, infos, publicKey, index) ==
    LET context == Append(parent_context, "Contest #" \o ToString(index))
        contestInfo == Item(infos, index)
    IN  IF st.thrown THEN st
        ELSE IF ~IsDefined(infos, index)
        THEN throw(record(st, FALSE, context, "CastBallotNumberOfSelections"))
        ELSE VerifyContestProofs(
                 record(record(st,
                            Len(contest.selections) = contestInfo.numSelections,
                            context, "CastBallotNumberOfSelections"),
                        contest.max_selections = contestInfo.maxSelections,
                        context, "CastBallotMaxSelections"),
                 context, label, contest, publicKey,
                 LoadSelections(contest.selections),
                 strDecToPRingElement(contest.max_selections, baselineParameters))

RECURSIVE VerifyBallotContests(_, _, _, _, _, _, _)
VerifyBallotContests(st, context, label, contests, infos, publicKey, i) ==
    IF i >= Len(contests) \/ st.thrown THEN st
    ELSE VerifyBallotContests(
             VerifyBallotContest(st, context, label, contests[i + 1], infos,
                                 publicKey, i),
             context, label, contests, infos, publicKey, i + 1)

\* VEncryptedBallotRecord.verify
VEncryptedBallotRecordVerify(st, parent_context, label, encryptedBallot, infos, publicKey, index) ==
    LET context == Append(parent_context, "Cast Ballot #" \o ToString(index))
        counted == record(st, Len(encryptedBallot.contests) = Len(infos), context,
                          "CastBallotNumberOfContests")
    IN  VerifyBallotContests(counted, context, label, encryptedBallot.contests, infos,
                             publicKey, 0)

\* VContestTallyRecord.getSelectionEncryptions: the messages of one selection
\* over all cast ballots, or the empty list and a failure record when a ballot
\* lacks the contest or the selection.
HasSelection(ballot, contestIndex, selectionIndex) ==
    /\ contestIndex < Len(ballot.contests)
    /\ selectionIndex < Len(ballot.contests[contestIndex + 1].selections)

getSelectionEncryptions(st, context, castBallots, contestIndex, selectionIndex) ==
    IF \A b \in 1..Len(castBallots) :
           HasSelection(castBallots[b], contestIndex, selectionIndex)
    THEN [st |-> st,
          v |-> [b \in 1..Len(castBallots) |->
                    castBallots[b].contests[contestIndex + 1]
                        .selections[selectionIndex + 1].message]]
    ELSE [st |-> record(st, FALSE, context, "SelectionEncryptionsLoading"), v |-> <<>>]

\* tallyDecryptions.map(... new VDecryptionRecord ...): only the records made
\* while the selection encryptions are collected.
RECURSIVE CollectEncryptions(_, _, _, _, _, _)
CollectEncryptions(st, context, tallyDecryptions, castBallots, contestIndex, i) ==
    IF i >= Len(tallyDecryptions) THEN st
    ELSE CollectEncryptions(
             getSelectionEncryptions(st, context, castBallots, contestIndex, i).st,
             context, tallyDecryptions, castBallots, contestIndex, i + 1)

RECURSIVE VerifyTallyDecryptions(_, _, _, _, _, _, _, _)
VerifyTallyDecryptions(st, context, label, tallyDecryptions, castBallots, keys, contestIndex, i) ==
    IF i >= Len(tallyDecryptions) \/ st.thrown THEN st
    ELSE VerifyTallyDecryptions(
             VDecryptionRecordVerify(st, context, label, tallyDecryptions[i + 1],
                 getSelectionEncryptions(st, context, castBallots, contestIndex, i).v,
                 keys, i),
             context, label, tallyDecryptions, castBallots, keys, contestIndex, i + 1)

\* VContestTallyRecord.verify
VContestTallyRecordVerify(st, parentContext, label, tallyDecryptions, castBallots, keys, contestIndex) ==
    LET context == Append(parentContext, "Tally, contest #" \o ToString(contestIndex))
        collected == CollectEncryptions(st, context, tallyDecryptions, castBallots,
                                        contestIndex, 0)
    IN  IF st.thrown THEN st
        ELSE VerifyTallyDecryptions(collected, context, label, tallyDecryptions,
                                    castBallots, keys, contestIndex, 0)

\* contestDecryption.reduce((total, next) => total + next.cleartext, 0); a
\* cleartext that is no integer never adds up to an integer limit.
RECURSIVE cleartextSum(_)
cleartextSum(contestDecryption) ==
    IF contestDecryption = <<>> THEN 0
    ELSE LET rest == cleartextSum(SubSeq(contestDecryption, 1,
                                         Len(contestDecryption) - 1))
             next == contestDecryption[Len(contestDecryption)].cleartext
         IN  IF rest = NotDecimal \/ next = NotDecimal THEN NotDecimal ELSE rest + next

\* The first pass of VSpoiledBallotRecord.verify: one SumOfPlaintexts per contest.
RECURSIVE RecordSumOfPlaintexts(_, _, _, _, _)
RecordSumOfPlaintexts(st, context, contestDecryptions, infos, i) ==
    IF i >= Len(contestDecryptions) THEN st
    ELSE RecordSumOfPlaintexts(
             record(st,
                 IF ~IsDefined(infos, i) THEN FALSE
                 ELSE cleartextSum(contestDecryptions[i + 1]) = Item(infos, i).maxSelections,
                 Append(context, "Contest #" \o ToString(i)), "SumOfPlaintexts"),
             context, contestDecryptions, infos, i + 1)

\* The second pass: every decryption of every contest, in order.
RECURSIVE VerifySpoiledDecryptions(_, _, _, _, _, _, _)
VerifySpoiledDecryptions(st, context, label, contestDecryptions, keys, c, i) ==
    IF c >= Len(contestDecryptions) \/ st.thrown THEN st
    ELSE IF i >= Len(contestDecryptions[c + 1])
    THEN VerifySpoiledDecryptions(st, context, label, contestDecryptions, keys, c + 1, 0)
    ELSE VerifySpoiledDecryptions(
             VDecryptionRecordVerify(st, Append(context, "Contest #" \o ToString(c)),
                 label, contestDecryptions[c + 1][i + 1], <<>>, keys, i),
             context, label, contestDecryptions, keys, c, i + 1)

\* VSpoiledBallotRecord.verify
VSpoiledBallotRecordVerify(st, parent_context, label, contestDecryptions, infos, keys, index) ==
    LET context == Append(parent_context, "Spoiled ballot #" \o ToString(index))
        summed == RecordSumOfPlaintexts(st, context, contestDecryptions, infos, 0)
    IN  IF st.thrown THEN st
        ELSE VerifySpoiledDecryptions(summed, context, label, contestDecryptions, keys,
                                      0, 0)

\* The base hashes are not computed yet: both are hexToByteArray('0').
createBaseHash == hexToByteArray(<<0>>)
createExtendedBaseHash == hexToByteArray(<<0>>)

ElectionContext == <<"Election">>

RECURSIVE RecordSchemaErrors(_, _)
RecordSchemaErrors(st, errors) ==
    IF errors = 0 THEN st
    ELSE RecordSchemaErrors(record(st, FALSE, ElectionContext, "ValidateJsonSchema"),
                            errors - 1)

\* VElectionRecord.verify, from the schema validation to the base hashes.  A
\* JSON value without the members of an election record raises a TypeError at
\* the first member access.
VerifyParameters(st, e) ==
    LET validated == IF e.schemaErrors > 0 THEN RecordSchemaErrors(st, e.schemaErrors)
                     ELSE record(st, TRUE, ElectionContext, "ValidateJsonSchema")
        threshold == record(validated,
                         e.parameters.threshold <= e.parameters.num_trustees,
                         ElectionContext, "ThresholdTrustees")
        counted == record(threshold,
                       Len(e.trustee_public_keys) = e.parameters.num_trustees,
                       ElectionContext, "NumPubKeys")
        prime == strDecToHex(e.parameters.prime)
        modulus == record(counted, HexValue(prime.v) = baselineParameters.modulus,
                          ElectionContext, "BaselineEncryptionModulus")
        generator == strDecToHex(e.parameters.generator)
        g == record(modulus, HexValue(generator.v) = baselineParameters.generator,
                    ElectionContext, "BaselineEncryptionGenerator")
        base == record(g, hexToByteArray(e.base_hash) = createBaseHash,
                       ElectionContext, "ElectionBaseHash")
    IN  IF e.json # "object" THEN throw(validated)
        ELSE IF prime.kind = "throw" THEN throw(counted)
        ELSE IF generator.kind = "throw" THEN throw(modulus)
        ELSE record(base, hexToByteArray(e.extended_base_hash) = createExtendedBaseHash,
                    ElectionContext, "ElectionExtendedBaseHash")

\* Whether every VCoefficientCommitmentsRecord could be constructed.
CoefficientsLoad(e) ==
    \A i \in 1..Len(e.trustee_public_keys) :
        NewVCoefficientCommitmentsRecord(e.trustee_public_keys[i]).kind = "value"

jointPublicKey(e) == strDecToModPGroupElement(e.joint_public_key, baselineParameters)

\* A verify that verifies the trustee records before it records the joint
\* public key.
LoadTrusteesVerifiedFirst(st, e) ==
    LET loaded == IF CoefficientsLoad(e) THEN VerifyCoefficients(st, e, 1)
                  ELSE record(st, FALSE, ElectionContext, "CoefficientCommitmentsLoading")
        calculatedJointPublicKey == createJointPublicKey(baselineParameters, publicKeys(e))
    IN  IF jointPublicKey(e).kind = "throw" THEN throw(loaded)
        ELSE IF isError(jointPublicKey(e))
        THEN record(loaded, FALSE, ElectionContext, "JointPublicKeyCalculation")
        ELSE record(loaded, calculatedJointPublicKey = jointPublicKey(e).v,
                    ElectionContext, "JointPublicKeyCalculation")

\* VElectionRecord.verify, the trustee records and the joint public key.
LoadTrustees(st, e) ==
    LET loaded == IF CoefficientsLoad(e) THEN st
                  ELSE record(st, FALSE, ElectionContext, "CoefficientCommitmentsLoading")
        calculatedJointPublicKey == createJointPublicKey(baselineParameters, publicKeys(e))
    IN  IF jointPublicKey(e).kind = "throw" THEN throw(loaded)
        ELSE IF isError(jointPublicKey(e))
        THEN record(loaded, FALSE, ElectionContext, "JointPublicKeyCalculation")
        ELSE record(loaded, calculatedJointPublicKey = jointPublicKey(e).v,
                    ElectionContext, "JointPublicKeyCalculation")

RECURSIVE VerifyCastBallotsFrom(_, _, _)
VerifyCastBallotsFrom(st, e, i) ==
    IF i >= Len(e.cast_ballots) \/ st.thrown THEN st
    ELSE VerifyCastBallotsFrom(
             VEncryptedBallotRecordVerify(st, ElectionContext,
                 hexToByteArray(e.extended_base_hash), e.cast_ballots[i + 1],
                 contestInfoArray(e), jointPublicKey(e).v, i),
             e, i + 1)

\* VElectionRecord.verify, the cast ballots: skipped without a joint public key.
VerifyCastBallots(st, e) ==
    IF isError(jointPublicKey(e)) THEN st ELSE VerifyCastBallotsFrom(st, e, 0)

RECURSIVE VerifyContestTallies(_, _, _)
VerifyContestTallies(st, e, i) ==
    IF i >= Len(e.contest_tallies) \/ st.thrown THEN st
    ELSE VerifyContestTallies(
             VContestTallyRecordVerify(st, ElectionContext,
                 hexToByteArray(e.extended_base_hash), e.contest_tallies[i + 1],
                 e.cast_ballots, publicKeys(e), i),
             e, i + 1)

RECURSIVE VerifySpoiledBallots(_, _, _)
VerifySpoiledBallots(st, e, i) ==
    IF i >= Len(e.spoiled_ballots) \/ st.thrown THEN st
    ELSE VerifySpoiledBallots(
             VSpoiledBallotRecordVerify(st, ElectionContext,
                 hexToByteArray(e.extended_base_hash), e.spoiled_ballots[i + 1].contests,
                 contestInfoArray(e), publicKeys(e), i),
             e, i + 1)

(***************************************************************************)
(* One VZeroOrOneProofRecord verified on its own, for every selection      *)
(* (A, B) under the key K and every pair of Chaum-Pedersen triples of the  *)
(* model's group.                                                          *)
(***************************************************************************)
ZoContext == <<"Election", "Cast Ballot #0", "Contest #0", "Selection #0">>
ZoKey == 4

ZoTriple(a1, a2, c, k) ==
    [commitment |-> [public_key |-> a1, ciphertext |-> a2], challenge |-> c, response |-> k]

ZoInit ==
    LET G == GroupElements(baselineParameters)
        F == 0..(baselineParameters.order - 1)
    IN  sgs \in {[phase |-> "record", A |-> A, B |-> B, K |-> ZoKey,
                  zero_proof |-> ZoTriple(z[1], z[2], c[1], k[1]),
                  one_proof |-> ZoTriple(o[1], o[2], c[2], k[2]),
                  st |-> Run(NewRecorder)] :
                    A \in G, B \in G, z \in (G \cup {3}) \X G, o \in G \X G,
                    c \in F \X F, k \in F \X F}

\* new VZeroOrOneProofRecord(...).verify(recorder)
ZoVerify ==
    /\ sgs.phase = "record"
    /\ sgs' = [sgs EXCEPT !.phase = "done",
                  !.st = VZeroOrOneProofRecordVerify(sgs.st, ZoContext, SigmaLabel,
                             sgs.zero_proof, sgs.one_proof, sgs.A, sgs.B, sgs.K)]

(***************************************************************************)
(* Proofs as an honest prover makes them (SigmaProof.prove with a fixed    *)
(* nonce), and in the layout of the record.                                *)
(***************************************************************************)
SchnorrProve(group, hom, label, instance, witness, nonce) ==
    LET commitment == [i \in 1..Len(hom) |-> exp(group, hom[i], nonce)]
        cbt == instanceToByteTree(commitment)
        challenge == SchnorrChallenge(group,
                        ByteTreeOfTrees(<<asByteTree(label),
                                          instanceToByteTree(instance), cbt>>))
    IN  [commitment |-> commitment, challenge |-> challenge,
         response |-> (nonce + challenge * witness) % group.order]

\* A ChaumPedersenProof of the record for (A, B) = (g^witness, K^witness);
\* forged, its response is off by one.
ChaumPedersenProofOf(label, A, B, K, witness, forged) ==
    LET group == baselineParameters
        p == SchnorrProve(group, <<group.generator, K>>, label, <<A, B>>, witness, 1)
    IN  [commitment |-> [public_key |-> p.commitment[1], ciphertext |-> p.commitment[2]],
         challenge |-> p.challenge,
         response |-> IF forged THEN (p.response + 1) % group.order ELSE p.response]

\* A SchnorrProof of the record for publicKey = g^witness.
SchnorrProofOf(label, publicKey, witness, forged) ==
    LET group == baselineParameters
        p == SchnorrProve(group, <<group.generator>>, label, <<publicKey>>, witness, 1)
    IN  [commitment |-> p.commitment[1], challenge |-> p.challenge,
         response |-> IF forged THEN (p.response + 1) % group.order ELSE p.response]

\* The zero_proof and one_proof of a selection (A, B) = (g^r, g^vote * K^r):
\* the branch of the vote is proved with nonce 1, the other one is simulated
\* with challenge 1 and reply 1.
ZeroOrOneProofOf(label, A, B, K, vote, r) ==
    LET group == baselineParameters
        pair == <<group.generator, K>>
        instances == << <<A, B>>, <<A, mul(group, B, inv(group, group.generator))>> >>
        real == vote + 1
        simulated == 2 - vote
        commitment(b) ==
            IF b = real THEN [j \in 1..2 |-> exp(group, pair[j], 1)]
            ELSE [j \in 1..2 |-> mul(group, exp(group, pair[j], 1),
                                     inv(group, instances[b][j]))]
        cbt == ByteTreeOfTrees(<<instanceToByteTree(commitment(1)),
                                 instanceToByteTree(commitment(2))>>)
        challenge == SchnorrChallenge(group,
                        ByteTreeOfTrees(<<asByteTree(label),
                                          instanceToByteTree(instances[1]), cbt>>))
        own == (challenge + group.order - 1) % group.order
        proof(b) ==
            [commitment |-> [public_key |-> commitment(b)[1],
                             ciphertext |-> commitment(b)[2]],
             challenge |-> IF b = real THEN own ELSE 1,
             response |-> IF b = real THEN (1 + own * r) % group.order ELSE 1]
    IN  [zero_proof |-> proof(1), one_proof |-> proof(2)]

(***************************************************************************)
(* The three proof records verified on their own: a Schnorr proof of a     *)
(* key, a Chaum-Pedersen proof and a zero-or-one proof of a selection,     *)
(* made honestly or with a response off by one, and then left intact or    *)
(* with one member replaced by a text that is no number or by a number     *)
(* outside the group.                                                      *)
(***************************************************************************)
PrContext == <<"Election", "Record">>
PrHows == {"intact", "commitment", "challenge", "response", "outside"}

PrSpoil(proof, how) ==
    CASE how = "commitment" ->
             [proof EXCEPT !.commitment = [@ EXCEPT !.public_key = NotDecimal]]
      [] how = "outside" -> [proof EXCEPT !.commitment = [@ EXCEPT !.ciphertext = 3]]
      [] how = "challenge" -> [proof EXCEPT !.challenge = NotDecimal]
      [] how = "response" -> [proof EXCEPT !.response = NotDecimal]
      [] OTHER -> proof

PrSpoilSchnorr(proof, how) ==
    CASE how = "commitment" -> [proof EXCEPT !.commitment = NotDecimal]
      [] how = "outside" -> [proof EXCEPT !.commitment = 3]
      [] how = "challenge" -> [proof EXCEPT !.challenge = NotDecimal]
      [] how = "response" -> [proof EXCEPT !.response = NotDecimal]
      [] OTHER -> proof

PrInit ==
    LET group == baselineParameters
    IN  \E witness \in 1..2, vote \in 0..1, forged \in BOOLEAN, how \in PrHows :
          LET A == exp(group, group.generator, witness)
              B == exp(group, ZoKey, witness)
              C == mul(group, exp(group, group.generator, vote), B)
              zo == ZeroOrOneProofOf(SigmaLabel, A, C, ZoKey, vote, witness)
          IN  sgs = [phase |-> "record", how |-> how, forged |-> forged,
                     A |-> A, B |-> B, C |-> C, K |-> ZoKey,
                     schnorr |-> PrSpoilSchnorr(
                                     SchnorrProofOf(SigmaLabel, A, witness, forged), how),
                     chaumPedersen |-> PrSpoil(
                                     ChaumPedersenProofOf(SigmaLabel, A, B, ZoKey,
                                                          witness, forged), how),
                     zero_proof |-> PrSpoil(
                                     IF forged
                                     THEN [zo.zero_proof EXCEPT
                                              !.response = (@ + 1) % group.order]
                                     ELSE zo.zero_proof, how),
                     one_proof |-> zo.one_proof,
                     st |-> Run(NewRecorder)]

\* new VSchnorrProofRecord(...).verify(recorder)
PrSchnorr ==
    /\ sgs.phase = "record"
    /\ sgs' = [sgs EXCEPT !.phase = "SchnorrProof",
                  !.st = VSchnorrProofRecordVerify(sgs.st, PrContext, SigmaLabel,
                             sgs.schnorr, sgs.A)]

\* new VChaumPedersenProofRecord(...).verify(recorder)
PrChaumPedersen ==
    /\ sgs.phase = "record"
    /\ sgs' = [sgs EXCEPT !.phase = "ChaumPedersenProof",
                  !.st = VChaumPedersenProofRecordVerify(sgs.st, PrContext, SigmaLabel,
                             sgs.chaumPedersen, sgs.A, sgs.B, sgs.K)]

\* new VZeroOrOneProofRecord(...).verify(recorder)
PrZeroOrOne ==
    /\ sgs.phase = "record"
    /\ sgs' = [sgs EXCEPT !.phase = "ZeroOrOneProof",
                  !.st = VZeroOrOneProofRecordVerify(sgs.st, PrContext, SigmaLabel,
                             sgs.zero_proof, sgs.one_proof, sgs.A, sgs.C, sgs.K)]

(***************************************************************************)
(* Context arrays as objects.  The heap is the list of the arrays made so  *)
(* far and an array is known by its place in the heap, so that two holders *)
(* of the same array see each other's changes.  A record object holds its  *)
(* context array and, for the properties, the path it was constructed for  *)
(* and its parent.  The recorder keeps the array it was handed (as the     *)
(* ArrayRecorder of the tests does), together with what the array held     *)
(* when it was handed in and the number of objects made by then.           *)
(***************************************************************************)
MaxObjects == 4     \* record objects, the election included
MaxLines == 2       \* calls of recorder.record

\* Array.prototype.slice() and Array.prototype.push(item)
slice(heap, array) == [heap |-> Append(heap, heap[array]), array |-> Len(heap) + 1]
push(heap, array, item) == [heap EXCEPT ![array] = Append(@, item)]

\* A constructor that keeps the array of its parent and pushes onto it.
NewContextShared(heap, parent_context, label) ==
    [heap |-> push(heap, parent_context, label), array |-> parent_context]

\* this.context = parent_context.slice(); this.context.push(label)
NewContext(heap, parent_context, label) ==
    LET copy == slice(heap, parent_context)
    IN  [heap |-> push(copy.heap, copy.array, label), array |-> copy.array]

CtInit ==
    sgs = [heap |-> << <<"Election">> >>,
           objects |-> <<[context |-> 1, path |-> <<"Election">>, parent |-> 0]>>,
           lines |-> <<>>]

\* new VDecryptionRecord(parent.context, ...) and the other constructors that
\* add a label; the contest loop of VEncryptedBallotRecord.verify does the
\* same with a local array.
CtConstruct ==
    /\ Len(sgs.objects) < MaxObjects
    /\ \E p \in 1..Len(sgs.objects) :
          LET label == "Selection #" \o ToString(Len(sgs.objects))
              made == NewContext(sgs.heap, sgs.objects[p].context, label)
          IN  sgs' = [sgs EXCEPT
                         !.heap = made.heap,
                         !.objects = Append(@, [context |-> made.array,
                                                path |-> Append(sgs.objects[p].path, label),
                                                parent |-> p])]

\* new VSchnorrProofRecord(parent.context, ...) and the other proof records:
\* this.context = parentContext.slice()
CtConstructProof ==
    /\ Len(sgs.objects) < MaxObjects
    /\ \E p \in 1..Len(sgs.objects) :
          LET made == slice(sgs.heap, sgs.objects[p].context)
          IN  sgs' = [sgs EXCEPT
                         !.heap = made.heap,
                         !.objects = Append(@, [context |-> made.array,
                                                path |-> sgs.objects[p].path,
                                                parent |-> p])]

\* recorder.record(status, this.context, name, title)
CtRecord ==
    /\ Len(sgs.lines) < MaxLines
    /\ \E o \in 1..Len(sgs.objects) :
          sgs' = [sgs EXCEPT
                     !.lines = Append(@, [context |-> sgs.objects[o].context,
                                          path |-> sgs.heap[sgs.objects[o].context],
                                          objects |-> Len(sgs.objects)])]

(***************************************************************************)
(* One VDecryptionRecord verified on its own.                              *)
(***************************************************************************)
DcIdle == [phase |-> "idle", decryption |-> <<>>, selectionEncryptions |-> <<>>,
           publicKeys |-> <<>>, st |-> Run(NewRecorder)]

\* The trustees' secrets and keys a decryption may be checked against.
DcSecrets == <<1, 2>>
DcKeys == <<2, 4>>
DcContext == <<"Election", "Tally, contest #0">>

\* Share number i (from 0) of a selection whose alpha is a, made in one of four
\* ways: honestly, with a value outside the group, with a proof that does not
\* verify, or with a string that is no number.
DcShare(a, i, how) ==
    LET secret == IF i < Len(DcSecrets) THEN DcSecrets[i + 1] ELSE 1
        key == IF i < Len(DcKeys) THEN DcKeys[i + 1] ELSE 2
        honest == exp(baselineParameters, a, secret)
    IN  [share |-> CASE how = "unparseable" -> 3
                     [] how = "notDecimal" -> NotDecimal
                     [] OTHER -> honest,
         proof |-> ChaumPedersenProofOf(SigmaLabel, key, honest, a, secret,
                                        how = "forged")]

DcShareKinds == {"honest", "unparseable", "forged", "notDecimal"}

DcInit ==
    \E hows \in BoundedSeq(DcShareKinds, MaxShares),
       n \in 0..Len(DcKeys),
       a \in {2, 3}, b \in {1, 2, 3}, d \in {1, 2, 4}, c \in {0, 1, NotDecimal},
       tally \in BOOLEAN,
       encs \in {<<>>, <<[public_key |-> 2, ciphertext |-> 1]>>,
                 <<[public_key |-> 2, ciphertext |-> 1],
                   [public_key |-> 3, ciphertext |-> 1]>>} :
        dcs = [phase |-> "ready",
               decryption |->
                   [tally |-> tally,
                    encrypted |-> [public_key |-> a, ciphertext |-> b],
                    decrypted |-> d, cleartext |-> c,
                    shares |-> [i \in 1..Len(hows) |->
                                   DcShare(IF a = 3 THEN 2 ELSE a, i - 1, hows[i])]],
               selectionEncryptions |-> encs,
               publicKeys |-> SubSeq(DcKeys, 1, n),
               st |-> Run(NewRecorder)]

\* decryption.verify(recorder)
DcVerify ==
    /\ dcs.phase = "ready"
    /\ dcs' = [dcs EXCEPT !.phase = "done",
                          !.st = VDecryptionRecordVerify(dcs.st, DcContext, SigmaLabel,
                                     dcs.decryption, dcs.selectionEncryptions,
                                     dcs.publicKeys, 0)]

(***************************************************************************)
(* Election records. The intact record has two trustees with secret 1 and  *)
(* key 2, the joint key 4, one cast ballot with one contest and one        *)
(* selection encrypting a vote of 1 with randomness 1, and the matching    *)
(* tally. An input is the intact record with some of its parts changed;    *)
(* knob f at 0 leaves part f intact.                                       *)
(***************************************************************************)
Alternatives ==
    [file |-> 2,       \* 1: no path argument, 2: unreadable file
     input |-> 2,      \* 1: a JSON value that is no election record, 2: not JSON
     schema |-> 1,     \* 1: the schema validator reports one error
     threshold |-> 1,  \* 1: threshold 3
     hash |-> 1,       \* 1: base hashes "1"
     key |-> 2,        \* trustee 1's key: 1: not in the group, 2: not a number
     schnorr |-> 1,    \* 1: trustee 2's proof does not verify
     joint |-> 2,      \* declared joint key: 1: the identity, 2: not in the group
     ballots |-> 2,    \* 1: no cast ballot, 2: two cast ballots
     contests |-> 1,   \* 1: the last cast ballot has a second contest
     cipher |-> 1,     \* 1: the first ballot's ciphertext is not in the group
     alpha |-> 1,      \* 1: the tally's alpha is not in the group
     beta |-> 1,       \* 1: the tally's beta is another group element
     shares |-> 2,     \* 1: one share, 2: three shares
     share |-> 2,      \* share 0: 1: not in the group, 2: proof does not verify
     spoiled |-> 1]    \* 1: one spoiled ballot

KnobNames == DOMAIN Alternatives

HashLabel == <<0>>
TrusteeKey == exp(baselineParameters, baselineParameters.generator, 1)
JointKey == mul(baselineParameters, TrusteeKey, TrusteeKey)

ElTrustee(publicKey, forged) ==
    <<[public_key |-> publicKey,
       proof |-> SchnorrProofOf(HashLabel, TrusteeKey, 1, forged)]>>

ElContest(ciphertext) ==
    LET group == baselineParameters
        A == exp(group, group.generator, 1)
        B == mul(group, group.generator, exp(group, JointKey, 1))
        proofs == ZeroOrOneProofOf(HashLabel, A, B, JointKey, 1, 1)
    IN  [max_selections |-> 1,
         num_selections_proof |->
             ChaumPedersenProofOf(HashLabel, A, exp(group, JointKey, 1), JointKey,
                                  1, FALSE),
         selections |-> <<[message |-> [public_key |-> A, ciphertext |-> ciphertext],
                           zero_proof |-> proofs.zero_proof,
                           one_proof |-> proofs.one_proof]>>]

ElBallot(ciphertext, contests) ==
    [contests |-> [c \in 1..contests |-> ElContest(IF c = 1 THEN ciphertext ELSE 1)]]

ElShare(a, how) ==
    LET honest == exp(baselineParameters, a, 1)
    IN  [share |-> IF how = 1 THEN 3 ELSE honest,
         proof |-> ChaumPedersenProofOf(HashLabel, TrusteeKey, honest, a, 1, how = 2)]

\* The decryption of one selection holding the votes of n ballots.
ElDecryption(tally, n, k) ==
    LET group == baselineParameters
        a == exp(group, group.generator, n)
    IN  [tally |-> tally,
         encrypted |-> [public_key |-> IF k.alpha = 1 THEN 3 ELSE a,
                        ciphertext |-> IF k.beta = 1 THEN 2 ELSE 1],
         decrypted |-> exp(group, group.generator, n),
         cleartext |-> n,
         shares |-> [i \in 1..(CASE k.shares = 1 -> 1 [] k.shares = 2 -> 3 [] OTHER -> 2)
                        |-> ElShare(a, IF i = 1 THEN k.share ELSE 0)]]

Election(k) ==
    LET n == CASE k.ballots = 1 -> 0 [] k.ballots = 2 -> 2 [] OTHER -> 1
    IN  [file |-> CASE k.file = 1 -> "missing" [] k.file = 2 -> "unreadable"
                    [] OTHER -> "readable",
         json |-> CASE k.input = 1 -> "value" [] k.input = 2 -> "malformed"
                    [] OTHER -> "object",
         schemaErrors |-> IF k.input = 1 THEN 1 ELSE k.schema,
         parameters |-> [num_trustees |-> 2,
                         threshold |-> IF k.threshold = 1 THEN 3 ELSE 1,
                         prime |-> 7, generator |-> 2],
         base_hash |-> IF k.hash = 1 THEN <<1>> ELSE <<0>>,
         extended_base_hash |-> IF k.hash = 1 THEN <<1>> ELSE <<0>>,
         trustee_public_keys |->
             <<ElTrustee(CASE k.key = 1 -> 3 [] k.key = 2 -> NotDecimal
                           [] OTHER -> TrusteeKey, FALSE),
               ElTrustee(TrusteeKey, k.schnorr = 1)>>,
         joint_public_key |-> CASE k.joint = 1 -> 1 [] k.joint = 2 -> 3
                                [] OTHER -> JointKey,
         cast_ballots |->
             [b \in 1..n |-> ElBallot(IF b = 1 /\ k.cipher = 1 THEN 3 ELSE 1,
                                      IF b = n /\ k.contests = 1 THEN 2 ELSE 1)],
         contest_tallies |-> << <<ElDecryption(TRUE, n, k)>> >>,
         spoiled_ballots |->
             [b \in 1..k.spoiled |-> [contests |-> << <<ElDecryption(FALSE, 1, k)>> >>]]]

\* The knob settings that change the parts in D, and the records they give.
KnobsOf(D) ==
    {[f \in KnobNames |-> IF f \in D THEN c[f] ELSE 0] :
        c \in {c \in [D -> 1..2] : \A f \in D : c[f] <= Alternatives[f]}}

Elections ==
    UNION {{Election(k) : k \in KnobsOf(D)} :
              D \in {D \in SUBSET KnobNames : Cardinality(D) <= MaxDefects}}

(***************************************************************************)
(* The command-line verifier: main, then VElectionRecord.verify one part   *)
(* at a time, then the end of the process.                                 *)
(***************************************************************************)
\* One part of verify on the recorder; an exception leaves it for the runtime.
Walk(from, to, result) ==
    /\ pc = from
    /\ \E run \in {result} :
          /\ recorder' = run.rec
          /\ pc' = IF run.thrown THEN "thrown" ELSE to
    /\ UNCHANGED <<election, exitCode, bts, sgs, dcs>>

\* main and verifyElectionRecord up to the call of verify: exit_error_string
\* without a path or a readable file, the error handler (exit_error) on text
\* that is no JSON.
Main ==
    /\ pc = "start"
    /\ IF election.file # "readable" \/ election.json = "malformed"
       THEN pc' = "exited" /\ exitCode' = 1
       ELSE pc' = "parameters" /\ UNCHANGED exitCode
    /\ UNCHANGED <<election, recorder, bts, sgs, dcs>>

Parameters == Walk("parameters", "trustees", VerifyParameters(Run(recorder), election))

Trustees == Walk("trustees", "coefficients", LoadTrustees(Run(recorder), election))

Coefficients ==
    Walk("coefficients", "castBallots", VerifyCoefficients(Run(recorder), election, 1))

CastBallots ==
    Walk("castBallots", "contestTallies", VerifyCastBallots(Run(recorder), election))

ContestTallies ==
    Walk("contestTallies", "spoiledBallots",
         VerifyContestTallies(Run(recorder), election, 0))

SpoiledBallots ==
    Walk("spoiledBallots", "returned", VerifySpoiledBallots(Run(recorder), election, 0))

\* verify returned and nothing is left to run: the process ends with status 0.
Return ==
    /\ pc = "returned"
    /\ pc' = "exited" /\ exitCode' = 0
    /\ UNCHANGED <<election, recorder, bts, sgs, dcs>>

\* An exception nobody caught ends the process with status 1.
Uncaught ==
    /\ pc = "thrown"
    /\ pc' = "exited" /\ exitCode' = 1
    /\ UNCHANGED <<election, recorder, bts, sgs, dcs>>

(***************************************************************************)
(* verifyElectionRecord called as a library: the caller hands in the       *)
(* record string, a recorder and an error handler that either ends the     *)
(* process, as exit_error does, or returns.                                *)
(***************************************************************************)
LoadError == "Could not load election record as json"

\* The record strings of a library call: the intact record with some of
\* these parts changed.
LdKnobs == {"input", "schema", "threshold", "joint", "ballots", "spoiled"}
LdElections ==
    UNION {{Election(k) : k \in KnobsOf(D)} :
              D \in {D \in SUBSET LdKnobs : Cardinality(D) <= MaxDefects}}

LdInit ==
    /\ election \in LdElections
    /\ sgs \in {[handler |-> h, calls |-> <<>>] : h \in {"exits", "returns"}}
    /\ pc = "call" /\ recorder = NewRecorder /\ exitCode = -1

\* getElectionRecord: the record, or an Error when JSON.parse throws.
getElectionRecord ==
    /\ pc = "call"
    /\ pc' = IF election.json = "malformed" THEN "error" ELSE "parameters"
    /\ UNCHANGED <<election, recorder, exitCode, bts, sgs, dcs>>

\* A verifyElectionRecord that goes on to construct and verify the record
\* after the error handler has returned.
verifyElectionRecordFallsThrough ==
    /\ pc = "error"
    /\ sgs' = [sgs EXCEPT !.calls = Append(@, LoadError)]
    /\ IF sgs.handler = "exits"
       THEN pc' = "exited" /\ exitCode' = 1
       ELSE pc' = "parameters" /\ UNCHANGED exitCode
    /\ UNCHANGED <<election, recorder, bts, dcs>>

\* verifyElectionRecord on an Error: errorHandler(error), and nothing else.
verifyElectionRecord ==
    /\ pc = "error"
    /\ sgs' = [sgs EXCEPT !.calls = Append(@, LoadError)]
    /\ IF sgs.handler = "exits"
       THEN pc' = "exited" /\ exitCode' = 1
       ELSE pc' = "returned" /\ UNCHANGED exitCode
    /\ UNCHANGED <<election, recorder, bts, dcs>>

(***************************************************************************)
(* Specifications                                                          *)
(***************************************************************************)

\* The command-line verifier on every input.
Init ==
    /\ election \in Elections
    /\ pc = "start" /\ recorder = NewRecorder /\ exitCode = -1
    /\ bts = BtIdle /\ sgs = SgIdle /\ dcs = DcIdle

Next ==
    \/ Main \/ Parameters \/ Trustees \/ Coefficients \/ CastBallots
    \/ ContestTallies \/ SpoiledBallots \/ Return \/ Uncaught

Spec == Init /\ [][Next]_vars

\* verifyElectionRecord as a library call.
InitLoad ==
    /\ LdInit
    /\ bts = BtIdle /\ dcs = DcIdle

NextLoad ==
    \/ getElectionRecord \/ verifyElectionRecord
    \/ Parameters \/ Trustees \/ Coefficients \/ CastBallots
    \/ ContestTallies \/ SpoiledBallots

SpecLoad == InitLoad /\ [][NextLoad]_vars

\* The tally contests and the spoiled ballots of VElectionRecord.verify alone,
\* on records whose decryption objects carry or lack decrypted_tally (what
\* isTallyDecryption reads) in either place, and whose spoiled ballot has one
\* or two contests of one or two selections.
TrKnobs == {"alpha", "beta", "share", "ballots"}
MaxSpoiledContests == 2
TrElection(k, tally, spoiled, contests, selections) ==
    [Election(k) EXCEPT
        !.contest_tallies[1][1].tally = tally,
        !.spoiled_ballots =
            <<[contests |->
                  [c \in 1..contests |->
                      [i \in 1..selections |->
                          [ElDecryption(FALSE, 1, k) EXCEPT !.tally = spoiled]]]]>>]

TrInit ==
    /\ election \in
          {TrElection(k, t, s, c, n) :
              k \in UNION {KnobsOf(D) : D \in SUBSET TrKnobs},
              t \in BOOLEAN, s \in BOOLEAN,
              c \in 1..MaxSpoiledContests, n \in 1..2}
    /\ pc = "contestTallies" /\ recorder = NewRecorder /\ exitCode = -1

InitTree ==
    /\ TrInit
    /\ bts = BtIdle /\ sgs = SgIdle /\ dcs = DcIdle

NextTree == ContestTallies \/ SpoiledBallots

SpecTree == InitTree /\ [][NextTree]_vars

\* The byte-tree codec alone.
InitByteTree ==
    /\ BtInit
    /\ pc = "idle" /\ election = <<>> /\ recorder = NewRecorder /\ exitCode = -1
    /\ sgs = SgIdle /\ dcs = DcIdle

NextByteTree ==
    /\ (BtEncode \/ BtOverwrite \/ BtTruncate \/ BtRead)
    /\ UNCHANGED <<pc, election, recorder, exitCode, sgs, dcs>>

SpecByteTree == InitByteTree /\ [][NextByteTree]_vars

\* SigmaProof.verify alone, on the Schnorr proof of the ElectionGuard verifier.
InitSigma ==
    /\ SgInit
    /\ pc = "idle" /\ election = <<>> /\ recorder = NewRecorder /\ exitCode = -1
    /\ bts = BtIdle /\ dcs = DcIdle

NextSigma ==
    /\ (SgEncode \/ SgTruncate \/ SgVerify)
    /\ UNCHANGED <<pc, election, recorder, exitCode, bts, dcs>>

SpecSigma == InitSigma /\ [][NextSigma]_vars

\* verifyElectionGuard alone, on Schnorr and Chaum-Pedersen proofs.
InitGuard ==
    /\ GdInit
    /\ pc = "idle" /\ election = <<>> /\ recorder = NewRecorder /\ exitCode = -1
    /\ bts = BtIdle /\ dcs = DcIdle

NextGuard ==
    /\ GdVerify
    /\ UNCHANGED <<pc, election, recorder, exitCode, bts, dcs>>

SpecGuard == InitGuard /\ [][NextGuard]_vars

\* One zero-or-one proof record verified on its own.
InitZeroOrOne ==
    /\ ZoInit
    /\ pc = "idle" /\ election = <<>> /\ recorder = NewRecorder /\ exitCode = -1
    /\ bts = BtIdle /\ dcs = DcIdle

NextZeroOrOne ==
    /\ ZoVerify
    /\ UNCHANGED <<pc, election, recorder, exitCode, bts, dcs>>

SpecZeroOrOne == InitZeroOrOne /\ [][NextZeroOrOne]_vars

\* strDecToModPGroupElement alone.
InitConversion ==
    /\ CvInit
    /\ pc = "idle" /\ election = <<>> /\ recorder = NewRecorder /\ exitCode = -1
    /\ bts = BtIdle /\ dcs = DcIdle

NextConversion ==
    /\ (CvConvert \/ CvByteTree \/ CvRing)
    /\ UNCHANGED <<pc, election, recorder, exitCode, bts, dcs>>

SpecConversion == InitConversion /\ [][NextConversion]_vars

\* elgamal.sum alone.
InitSum ==
    /\ SmInit
    /\ pc = "idle" /\ election = <<>> /\ recorder = NewRecorder /\ exitCode = -1
    /\ bts = BtIdle /\ dcs = DcIdle

NextSum ==
    /\ SmSum
    /\ UNCHANGED <<pc, election, recorder, exitCode, bts, dcs>>

SpecSum == InitSum /\ [][NextSum]_vars

\* The operations on field and group elements alone.
InitArithmetic ==
    /\ ArInit
    /\ pc = "idle" /\ election = <<>> /\ recorder = NewRecorder /\ exitCode = -1
    /\ bts = BtIdle /\ dcs = DcIdle

NextArithmetic ==
    /\ \/ ArNeg \/ ArInv \/ ArAdd \/ ArSub \/ ArMul \/ ArEquals
       \/ ArGroupEquals \/ ArGroupMul \/ ArGroupExp \/ ArProd
    /\ UNCHANGED <<pc, election, recorder, exitCode, bts, dcs>>

SpecArithmetic == InitArithmetic /\ [][NextArithmetic]_vars

\* The context arrays of the records alone.
InitContext ==
    /\ CtInit
    /\ pc = "idle" /\ election = <<>> /\ recorder = NewRecorder /\ exitCode = -1
    /\ bts = BtIdle /\ dcs = DcIdle

NextContext ==
    /\ (CtConstruct \/ CtConstructProof \/ CtRecord)
    /\ UNCHANGED <<pc, election, recorder, exitCode, bts, dcs>>

SpecContext == InitContext /\ [][NextContext]_vars

\* The proof records alone.
InitProofRecords ==
    /\ PrInit
    /\ pc = "idle" /\ election = <<>> /\ recorder = NewRecorder /\ exitCode = -1
    /\ bts = BtIdle /\ dcs = DcIdle

NextProofRecords ==
    /\ (PrSchnorr \/ PrChaumPedersen \/ PrZeroOrOne)
    /\ UNCHANGED <<pc, election, recorder, exitCode, bts, dcs>>

SpecProofRecords == InitProofRecords /\ [][NextProofRecords]_vars

\* One decryption record verified on its own.
InitDecryption ==
    /\ DcInit
    /\ pc = "idle" /\ election = <<>> /\ recorder = NewRecorder /\ exitCode = -1
    /\ bts = BtIdle /\ sgs = SgIdle

NextDecryption ==
    /\ DcVerify
    /\ UNCHANGED <<pc, election, recorder, exitCode, bts, sgs>>

SpecDecryption == InitDecryption /\ [][NextDecryption]_vars

\* The recorder alone, under every sequence of calls.
InitRecorder ==
    /\ recorder = NewRecorder
    /\ pc = "idle" /\ election = <<>> /\ exitCode = -1
    /\ bts = BtIdle /\ sgs = SgIdle /\ dcs = DcIdle

NextRecorder ==
    /\ RcRecord
    /\ UNCHANGED <<pc, election, exitCode, bts, sgs, dcs>>

SpecRecorder == InitRecorder /\ [][NextRecorder]_vars

(***************************************************************************)
(* Properties of the recorder and of the byte-tree codec                   *)
(***************************************************************************)
SomeFailed(out) == \E i \in 1..Len(out) : ~out[i].status

\* C3: after any sequence of record() calls hasFailures is true exactly when
\* one of the calls so far had status false, and no later call, whatever its
\* status, takes the flag from true back to false.
C3_FlagIsSticky ==
    /\ [](recorder.hasFailures <=> SomeFailed(recorder.out))
    /\ [][recorder.hasFailures => recorder'.hasFailures]_vars

\* A passing call made after a failing one, with the flag still set.
C3_Witness ==
    /\ Len(recorder.out) >= 2
    /\ ~recorder.out[1].status
    /\ recorder.out[Len(recorder.out)].status
    /\ recorder.hasFailures

BtReadBack == bts.phase = "read" /\ ~bts.tampered

\* C8 as stated: decoding the encoding of any byte tree, an empty leaf and an
\* empty node included, succeeds and gives the tree back.
C8_RoundTripEveryTree ==
    BtReadBack => bts.res.ok /\ bts.res.tree = bts.tree

\* C8: decoding the encoding of a byte tree succeeds and gives back a tree of
\* the same shape and contents, for every tree in which each leaf holds at
\* least one byte and each node at least one child.
C8_RoundTripWellFormed ==
    BtReadBack /\ WellFormed(bts.tree) =>
        /\ bts.res.ok
        /\ bts.res.tree = bts.tree
        /\ bts.res.used = Len(bts.source)

\* A node holding a leaf and a nested node has been encoded and read back.
C8_Witness ==
    /\ BtReadBack /\ WellFormed(bts.tree)
    /\ bts.tree.type = NODE /\ Len(bts.tree.kids) = 2
    /\ bts.tree.kids[1].type = LEAF /\ bts.tree.kids[2].type = NODE
    /\ bts.res.ok

\* C9: reading throws when the first tag is neither 0 nor 1, when the first
\* declared length or count is zero, and when a leaf's declared length runs
\* past the end; and whenever reading succeeds, the bytes consumed lie within
\* the buffer and are exactly the encoding of the tree returned, so that every
\* tag at every level is 0 or 1, every length and count is positive, and no
\* leaf byte or child comes from beyond the end.
C9_MalformedThrows ==
    bts.phase = "read" =>
        LET source == bts.source
            declared == readUint32FromByteArray(source, 1)
        IN  /\ At(source, 0) \notin {LEAF, NODE} => ~bts.res.ok
            /\ declared = 0 => ~bts.res.ok
            /\ (At(source, 0) = LEAF /\ 5 + declared > Len(source)) => ~bts.res.ok
            /\ ~bts.res.ok => bts.res.tree = NoTree
            /\ bts.res.ok =>
                  /\ bts.res.used <= Len(source)
                  /\ WellFormed(bts.res.tree)
                  /\ toByteArray(bts.res.tree) = SubSeq(source, 1, bts.res.used)

\* A damaged array whose first tag and count are fine and whose nested part
\* is not, has been refused.
C9_Witness ==
    /\ bts.phase = "read" /\ bts.tampered
    /\ At(bts.source, 0) = NODE
    /\ readUint32FromByteArray(bts.source, 1) > 0
    /\ Len(bts.source) > 5
    /\ ~bts.res.ok

(***************************************************************************)
(* Properties of SigmaProof.verify                                         *)
(***************************************************************************)
\* Some deserialization step of the proof fails: the bytes are not a byte
\* tree, or, in a node of two or three children, the commitment is not a
\* member of the group or the reply or the carried challenge is not a leaf.
DeserializationFails(group, proof) ==
    LET r == readByteTreeFromByteArray(proof)
    IN  \/ ~r.ok
        \/ /\ ~isLeaf(r.tree) /\ Len(r.tree.kids) >= 2
           /\ \/ ~toElementAlt(group, r.tree.kids[1]).ok
              \/ ~isLeaf(r.tree.kids[2])
              \/ Len(r.tree.kids) = 3 /\ ~isLeaf(r.tree.kids[3])

\* C10: SigmaProof.verify returns false, and does not throw, whenever a
\* deserialization step of the proof fails.
C10_DeserializationFailureReturnsFalse ==
    (sgs.phase = "done" /\ DeserializationFails(baselineParameters, sgs.proof))
        => sgs.verdict = "false"

(***************************************************************************)
(* Properties of VDecryptionRecord.verify                                  *)
(***************************************************************************)
Parses(decLiStr) ==
    strDecToModPGroupElement(decLiStr, baselineParameters).kind = "value"

DcOut == dcs.st.rec.out
DcShares == dcs.decryption.shares
DcSelection == Append(DcContext, "Selection #0")
DcNamed(name) == {i \in 1..Len(DcOut) : DcOut[i].name = name}

\* C5: when shares of a selection fail to parse, what is recorded for the
\* selection is, share by share in increasing k at the context ending in
\* 'Share #k', a ShareLoading failure for an unparseable share and the
\* Chaum-Pedersen result for a parseable one, then exactly one SharesLoading
\* failure at the selection's context, and nothing else (no TallySum,
\* DecryptionMatches or CleartextMatches).
C5_ShareLoadingThenSharesLoading ==
    (/\ dcs.phase = "done"
     /\ Parses(dcs.decryption.encrypted.public_key)
     /\ \E k \in 1..Len(DcShares) : ~Parses(DcShares[k].share))
    => /\ Len(DcOut) = Len(DcShares) + 1
       /\ \A k \in 1..Len(DcShares) :
             /\ DcOut[k].context = Append(DcSelection, "Share #" \o ToString(k - 1))
             /\ IF Parses(DcShares[k].share)
                THEN DcOut[k].name = "ChaumPedersenProof"
                ELSE DcOut[k].name = "ShareLoading" /\ ~DcOut[k].status
       /\ DcOut[Len(DcOut)] =
             [status |-> FALSE, context |-> DcSelection, name |-> "SharesLoading"]

\* C6: for a tally selection whose alpha, beta, decrypted value and shares all
\* parse and whose cast-ballot ciphertexts multiply to something other than
\* the declared encrypted tally, TallySum is recorded false and afterwards
\* DecryptionMatches is recorded for the selection, true exactly when beta
\* times the inverse of the product of the shares is the decrypted value.
C6_TallySumFailsDecryptionMatchesFollows ==
    LET d == dcs.decryption
        group == baselineParameters
        encs == dcs.selectionEncryptions
        product == sum(group, [i \in 1..Len(encs) |->
                                  <<encs[i].public_key, encs[i].ciphertext>>])
        shares == [k \in 1..Len(DcShares) |-> Value(DcShares[k].share)]
        matches == mul(group, d.encrypted.ciphertext,
                       inv(group, IF shares = <<>> THEN 1 ELSE Combined(group, shares)))
                       = d.decrypted
    IN  (/\ dcs.phase = "done" /\ d.tally
         /\ Parses(d.encrypted.public_key) /\ Parses(d.encrypted.ciphertext)
         /\ Parses(d.decrypted)
         /\ \A k \in 1..Len(DcShares) : Parses(DcShares[k].share)
         /\ \A i \in 1..Len(encs) :
               Parses(encs[i].public_key) /\ Parses(encs[i].ciphertext)
         /\ product # <<d.encrypted.public_key, d.encrypted.ciphertext>>)
        => \E i \in DcNamed("TallySum"), j \in DcNamed("DecryptionMatches") :
              /\ i < j
              /\ DcOut[i] = [status |-> FALSE, context |-> DcSelection,
                             name |-> "TallySum"]
              /\ DcOut[j] = [status |-> matches, context |-> DcSelection,
                             name |-> "DecryptionMatches"]

(***************************************************************************)
(* Properties of the walk over the election record                         *)
(***************************************************************************)
\* Whether the recorder holds a call of this name at this context.
Recorded(name, context) ==
    \E i \in 1..Len(recorder.out) :
        recorder.out[i].name = name /\ recorder.out[i].context = context

RecordedAs(name, context, status) ==
    \E i \in 1..Len(recorder.out) :
        /\ recorder.out[i].name = name /\ recorder.out[i].context = context
        /\ recorder.out[i].status = status

\* The walk is past the trustees' records, respectively past their verification.
PastTrustees == pc \in {"coefficients", "castBallots", "contestTallies",
                        "spoiledBallots", "returned"}
PastCoefficients == pc \in {"castBallots", "contestTallies", "spoiledBallots",
                            "returned"}

\* C1: for every input that parses as JSON, VElectionRecord.verify runs to
\* completion without throwing; failures become record(false, ...) calls and
\* the walk goes on.
C1_VerifyNeverThrows ==
    election.file = "readable" /\ election.json # "malformed" => pc # "thrown"

TrusteeContext(i) == <<"Election", "Trustee #" \o ToString(i) \o " public keys">>

\* C2: when the first coefficient of one trustee fails to parse, the
\* NumberOfCoefficients predicate and the Schnorr proof of the first
\* coefficient of every other trustee are still recorded.
C2_SiblingTrusteesVerified ==
    PastCoefficients =>
        \A i \in 1..Len(election.trustee_public_keys) :
            Parses(election.trustee_public_keys[i][1].public_key) =>
                /\ Recorded("NumberOfCoefficients", TrusteeContext(i))
                /\ Recorded("SchnorrProof",
                            Append(TrusteeContext(i), "Coefficient #0 commitment"))

\* C4: the command-line verifier exits with status 0 if no predicate was
\* recorded with status false during verification, and with status 1 if at
\* least one was.
C4_ExitStatusTellsFailures ==
    (pc = "exited" /\ election.file = "readable" /\ election.json # "malformed")
    => exitCode = IF SomeFailed(recorder.out) THEN 1 ELSE 0

\* The product of the coefficient-0 commitments of all listed trustees, when
\* every one of them is a group element.
AllKeysParse ==
    \A i \in 1..Len(election.trustee_public_keys) :
        Parses(election.trustee_public_keys[i][1].public_key)

KeyProduct ==
    createJointPublicKey(baselineParameters,
        [i \in 1..Len(election.trustee_public_keys) |->
            election.trustee_public_keys[i][1].public_key])

\* C7: JointPublicKeyCalculation is recorded true if and only if the declared
\* joint public key parses as a group element and equals the product, over
\* all trustees listed in the record, of each trustee's coefficient-0
\* commitment.
C7_JointKeyIsProductOfAllTrustees ==
    PastTrustees =>
        (RecordedAs("JointPublicKeyCalculation", ElectionContext, TRUE)
            <=> /\ Parses(election.joint_public_key)
                /\ AllKeysParse
                /\ election.joint_public_key = KeyProduct)

(***************************************************************************)
(* Properties of verifyElectionGuard                                       *)
(***************************************************************************)
\* The challenge recomputed from the label, the instance and the commitment.
GdRecomputed ==
    SchnorrChallenge(baselineParameters,
        ByteTreeOfTrees(<<asByteTree(SigmaLabel), instanceToByteTree(sgs.instance),
                          GdByteTree(sgs.commitment)>>))

\* The proof node handed to verify.
GdProofNode ==
    ByteTreeOfTrees(<<GdByteTree(sgs.commitment),
                      asByteTree(toByteArrayNoZero(sgs.response)),
                      asByteTree(toByteArrayNoZero(sgs.challenge))>>)

ZoAccepted ==
    sgs.st.rec.out = <<[status |-> TRUE, context |-> ZoContext, name |-> "ZeroOrOneProof"]>>

ZoHom == <<baselineParameters.generator, sgs.K>>
ZoInstances ==
    << <<sgs.A, sgs.B>>,
       <<sgs.A, mul(baselineParameters, sgs.B,
                    inv(baselineParameters, baselineParameters.generator))>> >>
ZoCommitment(proof) == <<proof.commitment.public_key, proof.commitment.ciphertext>>

\* A subproof satisfies its check equation under its own subchallenge.
ZoSubproofHolds(instance, proof) ==
    /\ \A i \in 1..2 : ZoCommitment(proof)[i] \in GroupElements(baselineParameters)
    /\ SchnorrCheck(baselineParameters, ZoHom, instance, ZoCommitment(proof),
                    proof.challenge, proof.response)

ZoCommitmentVector ==
    ByteTreeOfTrees(<<GdByteTree(ZoCommitment(sgs.zero_proof)),
                      GdByteTree(ZoCommitment(sgs.one_proof))>>)

\* The Fiat-Shamir challenge of (label, instance byte tree, commitment vector).
ZoFiatShamir(ibt) ==
    SchnorrChallenge(baselineParameters,
        ByteTreeOfTrees(<<asByteTree(SigmaLabel), ibt, ZoCommitmentVector>>))

\* The byte tree of the whole instance vector: one child per instance.
ZoInstanceVector ==
    ByteTreeOfTrees(<<instanceToByteTree(ZoInstances[1]),
                      instanceToByteTree(ZoInstances[2])>>)

ZoSubchallengeSum ==
    (sgs.zero_proof.challenge + sgs.one_proof.challenge) % baselineParameters.order

\* C12: the zero-or-one verifier accepts if and only if both subproofs satisfy
\* their check equation under their own subchallenge and the sum in Fq of the
\* two subchallenges is the Fiat-Shamir challenge of the label, the whole
\* instance vector [(A, B), (A, B/g)] and the whole commitment vector.
C12_AcceptsIffSubproofsAndChallengeSum ==
    sgs.phase = "done" =>
        (ZoAccepted <=>
            /\ ZoSubproofHolds(ZoInstances[1], sgs.zero_proof)
            /\ ZoSubproofHolds(ZoInstances[2], sgs.one_proof)
            /\ ZoSubchallengeSum = ZoFiatShamir(ZoInstanceVector))

\* The node [label, instance, commitment] the challenge is derived from.
GdTranscript ==
    ByteTreeOfTrees(<<asByteTree(SigmaLabel), instanceToByteTree(sgs.instance),
                      GdByteTree(sgs.commitment)>>)

\* The digest of the framed serialization of the node, reduced modulo q.
GdFramedChallenge ==
    LargeInteger(sha256(toByteArray(GdTranscript))) % baselineParameters.order

\* C13: the Fiat-Shamir challenge the Schnorr and Chaum-Pedersen verifier uses
\* is the SHA-256 digest, reduced modulo q, of the framed serialization (a tag
\* byte and a 32-bit length on every leaf and node) of the node [label,
\* instance, commitment]: an accepted proof carries that challenge and
\* satisfies the check equation under it.
C13_ChallengeHashesFramedSerialization ==
    (sgs.phase = "done" /\ sgs.verdict = "true") =>
        /\ sgs.challenge % baselineParameters.order = GdFramedChallenge
        /\ SchnorrCheck(baselineParameters, sgs.hom, sgs.instance, sgs.commitment,
                        GdFramedChallenge, sgs.response % baselineParameters.order)

(***************************************************************************)
(* Properties of verifyElectionRecord                                      *)
(***************************************************************************)
\* C14: when the input string is not valid JSON, verifyElectionRecord calls
\* the error handler exactly once with the load error, records nothing on the
\* recorder, and neither constructs nor verifies an election record, whether
\* the error handler ends the process or returns.
C14_MalformedJsonOnlyCallsHandler ==
    election.json = "malformed" =>
        /\ recorder = NewRecorder
        /\ pc \in {"call", "error", "exited", "returned"}
        /\ IF pc \in {"call", "error"} THEN sgs.calls = <<>>
           ELSE sgs.calls = <<LoadError>>

\* The error handler returned, and so did verifyElectionRecord.
C14_Witness ==
    /\ election.json = "malformed" /\ sgs.handler = "returns"
    /\ pc = "returned" /\ sgs.calls = <<LoadError>>
    /\ recorder = NewRecorder

\* C15: when the input parses as JSON but does not match the election-record
\* schema, the failure is reported and verification ends there: nothing of
\* the walk after the schema check (ThresholdTrustees, NumPubKeys, the
\* trustees, the cast ballots, the tallies, the spoiled ballots) is run on
\* the object, so the recorder holds ValidateJsonSchema lines only.
C15_SchemaMismatchEndsVerification ==
    (election.json # "malformed" /\ election.schemaErrors > 0) =>
        /\ \A i \in 1..Len(recorder.out) : recorder.out[i].name = "ValidateJsonSchema"
        /\ pc \notin {"trustees", "coefficients", "castBallots", "contestTallies",
                      "spoiledBallots"}

(***************************************************************************)
(* Properties of the conversions                                           *)
(***************************************************************************)
\* The integer is a member of the group: in 1..p-1 and a quadratic residue.
CvMember(v, group) == 1 <= v /\ v < group.modulus /\ legendre(v, group.modulus) = 1

\* C16: strDecToModPGroupElement(s, G) returns a group element if and only if
\* the integer v that s denotes satisfies 1 <= v < p and legendre(v, p) = 1,
\* and the element is v; for every other integer it returns an Error.
C16_ElementIffMember ==
    (sgs.phase = "done" /\ sgs.decLiStr # NotDecimal) =>
        IF CvMember(sgs.decLiStr, sgs.group)
        THEN sgs.result = Value(sgs.decLiStr)
        ELSE sgs.result = ErrorObject

\* The product of component i of the ciphertexts, taken from the first on.
RECURSIVE SmProduct(_, _)
SmProduct(cs, i) ==
    IF cs = <<>> THEN 1
    ELSE (Head(cs)[i] * SmProduct(Tail(cs), i)) % baselineParameters.modulus

SmOrders(n) == {f \in [1..n -> 1..n] : \A a, b \in 1..n : f[a] = f[b] => a = b}

\* C17: elgamal.sum gives the componentwise product of all ciphertexts of the
\* list: the identity pair for the empty list, the ciphertext itself for a
\* list of one, and the same pair for every permutation of the list.
C17_SumIsComponentwiseProduct ==
    sgs.phase = "done" =>
        LET cs == sgs.ciphertexts
        IN  /\ sgs.result = <<SmProduct(cs, 1), SmProduct(cs, 2)>>
            /\ cs = <<>> => sgs.result = <<1, 1>>
            /\ Len(cs) = 1 => sgs.result = cs[1]
            /\ \A f \in SmOrders(Len(cs)) :
                  sum(baselineParameters, [i \in 1..Len(cs) |-> cs[f[i]]]) = sgs.result

\* Three different ciphertexts have been summed.
C17_Witness ==
    /\ sgs.phase = "done" /\ Len(sgs.ciphertexts) = 3
    /\ Cardinality({sgs.ciphertexts[i] : i \in 1..3}) = 3
    /\ sgs.result # <<1, 1>>

(***************************************************************************)
(* The order of the lines VElectionRecord.verify records                   *)
(***************************************************************************)
ElectionLevelNames ==
    <<"ValidateJsonSchema", "ThresholdTrustees", "NumPubKeys",
      "BaselineEncryptionModulus", "BaselineEncryptionGenerator",
      "ElectionBaseHash", "ElectionExtendedBaseHash">>

ChildLabels(prefix, suffix, from, to) ==
    {prefix \o ToString(i) \o suffix : i \in from..to}

\* The place of a recorded line in the walk: the Election-level lines by
\* name, the lines of a child by the kind of child; the joint key and the
\* trustees take the places handed in.
Stage(line, joint, trustees) ==
    IF Len(line.context) = 1
    THEN IF \E n \in 1..7 : ElectionLevelNames[n] = line.name
         THEN CHOOSE n \in 1..7 : ElectionLevelNames[n] = line.name
         ELSE IF line.name = "CoefficientCommitmentsLoading" THEN 8
         ELSE IF line.name = "JointPublicKeyCalculation" THEN joint
         ELSE 0
    ELSE IF line.context[2] \in ChildLabels("Trustee #", " public keys", 1, 3)
         THEN trustees
    ELSE IF line.context[2] \in ChildLabels("Cast Ballot #", "", 0, 3) THEN 11
    ELSE IF line.context[2] \in ChildLabels("Tally, contest #", "", 0, 3) THEN 12
    ELSE IF line.context[2] \in ChildLabels("Spoiled ballot #", "", 0, 3) THEN 13
    ELSE 0

\* Every line has a place, and the places never go down along the output.
InOrder(joint, trustees) ==
    /\ \A i \in 1..Len(recorder.out) : Stage(recorder.out[i], joint, trustees) > 0
    /\ \A i, k \in 1..Len(recorder.out) :
          i < k => Stage(recorder.out[i], joint, trustees)
                       <= Stage(recorder.out[k], joint, trustees)

\* When verify has returned, each Election-level line after the schema
\* validation and the joint key line have been recorded exactly once.
ElectionLevelComplete ==
    pc = "returned" =>
        /\ Recorded("ValidateJsonSchema", ElectionContext)
        /\ \A n \in 2..7 :
              Cardinality({i \in 1..Len(recorder.out) :
                              recorder.out[i].name = ElectionLevelNames[n]}) = 1
        /\ Cardinality({i \in 1..Len(recorder.out) :
                           recorder.out[i].name = "JointPublicKeyCalculation"}) = 1

\* C18 as stated: the lines come in the order schema validation,
\* ThresholdTrustees, NumPubKeys, BaselineEncryptionModulus,
\* BaselineEncryptionGenerator, ElectionBaseHash, ElectionExtendedBaseHash,
\* the lines of the trustee children, JointPublicKeyCalculation, the lines of
\* the cast ballots, of the tally contests, of the spoiled ballots.
C18_OrderAsListed == InOrder(10, 9) /\ ElectionLevelComplete

\* C18: the lines come in the order schema validation, ThresholdTrustees,
\* NumPubKeys, BaselineEncryptionModulus, BaselineEncryptionGenerator,
\* ElectionBaseHash, ElectionExtendedBaseHash, JointPublicKeyCalculation, and
\* only then the lines of the trustee children, followed by those of the
\* cast ballots, of the tally contests and of the spoiled ballots.
C18_JointKeyBeforeTrustees == InOrder(9, 10) /\ ElectionLevelComplete

\* verify has returned with lines of trustees, cast ballots, tally and
\* spoiled ballots recorded.
C18_Witness ==
    /\ pc = "returned"
    /\ \A stage \in 9..13 :
          \E i \in 1..Len(recorder.out) : Stage(recorder.out[i], 9, 10) = stage

(***************************************************************************)
(* Cast ballots under a joint public key that does not parse               *)
(***************************************************************************)
PastCastBallots == pc \in {"contestTallies", "spoiledBallots", "returned"}

CastBallotContext(i) == Append(ElectionContext, "Cast Ballot #" \o ToString(i))

\* C19: once verify is past the cast ballots of a record whose declared joint
\* public key does not parse, JointPublicKeyCalculation is recorded false
\* and every cast ballot has recorded its CastBallotNumberOfContests and the
\* CastBallotNumberOfSelections of each of its contests.
C19_CastBallotsVerifiedWithoutJointKey ==
    (PastCastBallots /\ isError(jointPublicKey(election))) =>
        /\ RecordedAs("JointPublicKeyCalculation", ElectionContext, FALSE)
        /\ \A i \in 1..Len(election.cast_ballots) :
              /\ Recorded("CastBallotNumberOfContests", CastBallotContext(i - 1))
              /\ \A c \in 1..Len(election.cast_ballots[i].contests) :
                    Recorded("CastBallotNumberOfSelections",
                             Append(CastBallotContext(i - 1),
                                    "Contest #" \o ToString(c - 1)))

(***************************************************************************)
(* The two counting predicates of a cast ballot's contest                  *)
(***************************************************************************)
ContestContext(b, c) == Append(CastBallotContext(b), "Contest #" \o ToString(c))

Times(name, context) ==
    Cardinality({i \in 1..Len(recorder.out) :
                    recorder.out[i].name = name /\ recorder.out[i].context = context})

\* Some line other than the two counting predicates is recorded at or below
\* the context.
ProofsChecked(context) ==
    \E i \in 1..Len(recorder.out) :
        /\ Len(recorder.out[i].context) >= Len(context)
        /\ SubSeq(recorder.out[i].context, 1, Len(context)) = context
        /\ recorder.out[i].name
               \notin {"CastBallotNumberOfSelections", "CastBallotMaxSelections"}

\* C20: every contest of a cast ballot that verify has reached has exactly
\* one CastBallotNumberOfSelections and exactly one CastBallotMaxSelections
\* line, and a contest whose index has no entry in the contest schema has
\* both of them with status false and its proofs checked.
C20_BothCountsRecordedPerContest ==
    pc \notin {"start", "exited"} =>
        \A b \in 1..Len(election.cast_ballots) :
            \A c \in 1..Len(election.cast_ballots[b].contests) :
                Recorded("CastBallotNumberOfSelections", ContestContext(b - 1, c - 1)) =>
                    /\ Times("CastBallotNumberOfSelections", ContestContext(b - 1, c - 1)) = 1
                    /\ Times("CastBallotMaxSelections", ContestContext(b - 1, c - 1)) = 1
                    /\ ~IsDefined(contestInfoArray(election), c - 1) =>
                          /\ RecordedAs("CastBallotNumberOfSelections",
                                        ContestContext(b - 1, c - 1), FALSE)
                          /\ RecordedAs("CastBallotMaxSelections",
                                        ContestContext(b - 1, c - 1), FALSE)
                          /\ ProofsChecked(ContestContext(b - 1, c - 1))

(***************************************************************************)
(* A selection whose alpha does not parse                                  *)
(***************************************************************************)
DcAlphaFails ==
    isError(strDecToModPGroupElement(dcs.decryption.encrypted.public_key,
                                     baselineParameters))

DcShareContexts == {Append(DcSelection, "Share #" \o ToString(k)) : k \in 0..3}

\* C21: after verify of a selection whose alpha does not parse, exactly one
\* line named AlphaLoading is recorded at the selection's context, with
\* status false, and no line is recorded at a 'Share #k' context.
C21_AlphaLoadingOnceAndNoShares ==
    (dcs.phase = "done" /\ DcAlphaFails) =>
        /\ Cardinality({i \in DcNamed("AlphaLoading") :
                           DcOut[i].context = DcSelection /\ ~DcOut[i].status}) = 1
        /\ Cardinality(DcNamed("AlphaLoading")) = 1
        /\ \A i \in 1..Len(DcOut) : DcOut[i].context \notin DcShareContexts

(***************************************************************************)
(* TallySum and the place of a decryption                                  *)
(***************************************************************************)
TallySelection == <<"Election", "Tally, contest #0", "Selection #0">>

TallyParses ==
    LET d == election.contest_tallies[1][1]
    IN  /\ Parses(d.encrypted.public_key) /\ Parses(d.encrypted.ciphertext)
        /\ Parses(d.decrypted)
        /\ \A k \in 1..Len(d.shares) : Parses(d.shares[k].share)

SumLines(inTally) ==
    {i \in 1..Len(recorder.out) :
        /\ recorder.out[i].name \in {"TallySum", "LoadingBallots"}
        /\ (recorder.out[i].context[2] = "Tally, contest #0") = inTally}

\* C22: once the tally contests have been verified, the selection of the
\* tally contest, if its alpha, shares, beta and decrypted value parse, has
\* exactly one TallySum or LoadingBallots line; once the spoiled ballots have
\* been verified, no selection of a spoiled ballot has one; both whatever
\* members the decryption objects carry.
C22_TallySumByPlaceOnly ==
    /\ (pc \in {"spoiledBallots", "returned"} /\ TallyParses) =>
          /\ Cardinality(SumLines(TRUE)) = 1
          /\ \A i \in SumLines(TRUE) : recorder.out[i].context = TallySelection
    /\ pc = "returned" => SumLines(FALSE) = {}

(***************************************************************************)
(* CleartextMatches after DecryptionMatches                                *)
(***************************************************************************)
\* C23: after verify of a selection, if a DecryptionMatches line is recorded
\* for it then exactly one CleartextMatches line is recorded for it too,
\* also when the declared cleartext does not convert to a ring element.
C23_CleartextMatchesWithDecryptionMatches ==
    (dcs.phase = "done" /\ DcNamed("DecryptionMatches") # {}) =>
        /\ Cardinality(DcNamed("CleartextMatches")) = 1
        /\ \A i \in DcNamed("CleartextMatches") : DcOut[i].context = DcSelection

(***************************************************************************)
(* The order of the lines of a spoiled ballot                              *)
(***************************************************************************)
SpoiledLines ==
    {i \in 1..Len(recorder.out) :
        /\ Len(recorder.out[i].context) >= 3
        /\ recorder.out[i].context[2] = "Spoiled ballot #0"}

ContestOf(line) ==
    CHOOSE c \in 0..MaxSpoiledContests : line.context[3] = "Contest #" \o ToString(c)

\* C24: among the lines of a spoiled ballot, no line of contest c + 1 is
\* recorded before a line of contest c.
C24_SpoiledContestsInDepthFirstOrder ==
    \A i, j \in SpoiledLines :
        i < j => ContestOf(recorder.out[i]) <= ContestOf(recorder.out[j])

(***************************************************************************)
(* One line per verified proof record                                      *)
(***************************************************************************)
\* C25: after verify of a Schnorr-proof, Chaum-Pedersen or zero-or-one
\* record, the recorder holds exactly one line, at the record's context and
\* with the record's name, true exactly for the intact honest proof; verify
\* has not thrown, whether the proof verifies, does not verify or has a
\* member that does not parse.
C25_OneLinePerProofRecord ==
    sgs.phase # "record" =>
        /\ ~sgs.st.thrown
        /\ sgs.st.rec.out =
              <<[status |-> (sgs.how = "intact" /\ ~sgs.forged),
                 context |-> PrContext, name |-> sgs.phase]>>

\* A zero-or-one record with a challenge that is no number has been verified.
C25_Witness ==
    /\ sgs.phase = "ZeroOrOneProof" /\ sgs.how = "challenge"
    /\ Len(sgs.st.rec.out) = 1

(***************************************************************************)
(* The shape of an accepted proof                                          *)
(***************************************************************************)
\* The children verifyElectionGuard gives a proof: commitment, response and
\* challenge.
ExpectedChildren == 3

SgExactShape ==
    LET r == readByteTreeFromByteArray(sgs.proof)
    IN  r.ok /\ ~isLeaf(r.tree) /\ Len(r.tree.kids) = ExpectedChildren

\* C26: SigmaProof.verify accepts no proof whose byte tree is not a node of
\* exactly the expected number of children.
C26_OnlyExactShapeAccepted ==
    (sgs.phase = "done" /\ ~SgExactShape) => sgs.verdict # "true"

(***************************************************************************)
(* Field elements are reduced; operations across fields or groups throw    *)
(***************************************************************************)
ArFieldOps == {"neg", "inv", "add", "sub", "mul"}

Reduced(element) == 0 <= element.value /\ element.value < element.of

\* C27: the elements PField.toElement made, and every element add, sub,
\* mul, neg or inv returned, have a value v with 0 <= v < q.
C27_FieldElementsReduced ==
    /\ sgs.phase = "operands" => Reduced(sgs.x) /\ Reduced(sgs.y)
    /\ (sgs.phase \in ArFieldOps /\ ~sgs.result.thrown) => Reduced(sgs.result)

ArCrosses(op) ==
    CASE op \in {"add", "sub", "mul", "equals"} -> sgs.F[1] # sgs.F[2]
      [] op \in {"groupEquals", "groupMul", "prod"} -> sgs.G[1] # sgs.G[2]
      [] op = "groupExp" -> sgs.F[1] # sgs.G[1].order
      [] OTHER -> FALSE

\* C28: equals, add, sub and mul of elements of two different fields, equals
\* and mul of elements of two different groups, exp by an exponent of another
\* field and prod with a component of the wrong group all throw.
C28_CrossOperationsRejected ==
    (sgs.phase # "operands" /\ ArCrosses(sgs.phase)) => sgs.result.thrown

(***************************************************************************)
(* The conversion helpers and exceptions                                   *)
(***************************************************************************)
\* C29: strDecToByteTree, strDecToModPGroupElement and strDecToPRingElement
\* return a value or an Error object for every input and never throw.
C29_ConversionsNeverThrow ==
    sgs.phase # "string" => sgs.result.kind \in {"value", "error"}

(***************************************************************************)
(* Context arrays are never shared                                         *)
(***************************************************************************)
\* C30: the context array of every record object still holds the path the
\* object was constructed for, whatever children were constructed from it,
\* and the array stored with every recorded line still holds what it held
\* when it was recorded.
C30_ContextsNeverChange ==
    /\ \A o \in 1..Len(sgs.objects) :
          sgs.heap[sgs.objects[o].context] = sgs.objects[o].path
    /\ \A l \in 1..Len(sgs.lines) :
          sgs.heap[sgs.lines[l].context] = sgs.lines[l].path

\* A line was recorded for an object, and a child and a grandchild were
\* constructed from that object afterwards.
C30_Witness ==
    \E l \in 1..Len(sgs.lines), o, c \in 1..Len(sgs.objects) :
        /\ o > sgs.lines[l].objects /\ c > o
        /\ sgs.objects[o].parent # 0 /\ sgs.objects[c].parent = o
        /\ sgs.objects[sgs.objects[o].parent].context = sgs.lines[l].context
        /\ Len(sgs.objects[c].path) = 3

====
